---- MODULE Spec2Model ----
(***************************************************************************)
(* Model of the govee_api client (src/govee_api): the Govee object with    *)
(* its broker (MQTT) session, its Bluetooth connection pool, its device    *)
(* registry, and the command dispatch of api.py / device.py / command.py.  *)
(*                                                                         *)
(* Every handler is one atomic action.  The variable `trace' holds, for    *)
(* the handler that ran last, the calls it made on its collaborators       *)
(* (HTTP, MQTT client, Bluetooth adapter, event sinks) in program order.   *)
(* Python None is the empty tuple <<>>, a present value v is <<v>>.        *)
(* The specifications SpecReset and SpecFlags run the code of two threads  *)
(* statement by statement: `threads' holds the position and the locals of  *)
(* the thread that delivers pushes and of the thread of the caller.        *)
(***************************************************************************)
EXTENDS Integers, Sequences, FiniteSets, TLC

VARIABLES
    login_token,            \* Govee.__login_token
    mqtt_cert_file,         \* Govee.__mqtt_cert_file
    mqtt_topic,             \* Govee.__mqtt_topic
    mqtt_connection,        \* Govee.__mqtt_connection (state of the client object)
    bluetooth_running,      \* Govee.__bluetooth_adapter._running.is_set()
    devices,                \* Govee.__devices: identifier -> device
    device_order,           \* insertion order of Govee.__devices
    bluetooth_connections,  \* Govee.__bluetooth_connections: address -> handle
    trace,                  \* collaborator calls of the last handler
    threads                 \* thread -> position and locals of the code it runs

vars == <<login_token, mqtt_cert_file, mqtt_topic, mqtt_connection,
          bluetooth_running, devices, device_order, bluetooth_connections, trace,
          threads>>

----------------------------------------------------------------------------
(* Bounds of the model *)

\* longest device list one enumeration response carries
MaxListLen == 1

\* longest radio payload drawn in the frame specification
PayloadLenBound == 18

----------------------------------------------------------------------------
(* Program constants *)

\* while retries < 10
MaxRetries == 10

\* if len(payload[1]) > 17
MaxBtPayload == 17

\* first byte of every Bluetooth packet
FrameMarker == 51

\* packet is padded to 19 bytes before the checksum is appended
PadLen == 19

\* login / device list status that means success
HttpOk == 200

\* upper and lower limit of __fix_color_temperature
KelvinMax == 9000

KelvinMin == 2000

----------------------------------------------------------------------------
(* Generic helpers *)

None == <<>>

Some(v) == <<v>>

Min(a, b) == IF a < b THEN a ELSE b

Max(a, b) == IF a > b THEN a ELSE b

RECURSIVE BitXor(_, _)
\* Python's ^ on non-negative integers
BitXor(a, b) ==
    IF a = 0 THEN b
    ELSE IF b = 0 THEN a
    ELSE (((a % 2) + (b % 2)) % 2) + 2 * BitXor(a \div 2, b \div 2)

RECURSIVE XorAll(_)
\* checksum = 0; for byte in packet: checksum ^= byte
XorAll(s) == IF s = <<>> THEN 0 ELSE BitXor(XorAll(SubSeq(s, 1, Len(s) - 1)), s[Len(s)])

Zeros(n) == [i \in 1..n |-> 0]

----------------------------------------------------------------------------
(* device.ConnectionStatus: an enum.Flag, modelled as the set of its bits *)

OFFLINE == {"OFFLINE"}

IOT_CONNECTED == {"IOT_CONNECTED"}

BT_CONNECTED == {"BT_CONNECTED"}

AllFlags == OFFLINE \cup IOT_CONNECTED \cup BT_CONNECTED

\* ~status of an enum.Flag
FlagNot(status) == AllFlags \ status

\* GoveeDevice._add_connection_status: new status and the returned flag
AddConnectionStatus(cs, status) ==
    LET changed0 == (cs \cap status) # status
        cs1 == cs \cup status
    IN IF status # OFFLINE
       THEN [cs |-> cs1 \cap FlagNot(OFFLINE), changed |-> TRUE]
       ELSE [cs |-> cs1, changed |-> changed0]

\* _remove_connection_status without the fallback to OFFLINE
RemoveNoOffline(cs, status) ==
    [cs |-> cs \cap FlagNot(status), changed |-> (cs \cap status) = status]

\* GoveeDevice._remove_connection_status: new status and the returned flag
RemoveConnectionStatus(cs, status) ==
    LET changed0 == (cs \cap status) = status
        cs1 == cs \cap FlagNot(status)
    IN IF cs1 = {}
       THEN [cs |-> OFFLINE, changed |-> TRUE]
       ELSE [cs |-> cs1, changed |-> changed0]

----------------------------------------------------------------------------
(* command.py: the commands and their two encodings *)

NoCommand ==
    [kind |-> "", on |-> FALSE, val |-> 0, red |-> 0, green |-> 0, blue |-> 0, kelvin |-> 0,
     opcode |-> 0, data |-> <<>>]

StatusCommand == [NoCommand EXCEPT !.kind = "status"]

TurnCommand(v) == [NoCommand EXCEPT !.kind = "turn", !.on = v]

BrightnessCommand(v) == [NoCommand EXCEPT !.kind = "brightness", !.val = v]

ColorCommand(r, g, b) == [NoCommand EXCEPT !.kind = "color", !.red = r, !.green = g, !.blue = b]

ColorTemperatureCommand(k, r, g, b) ==
    [NoCommand EXCEPT !.kind = "colorTem", !.kelvin = k, !.red = r, !.green = g, !.blue = b]

\* any other subclass of _AbstractCommand: its Bluetooth payload is (opcode, data)
OtherCommand(opcode, data) == [NoCommand EXCEPT !.kind = "other", !.opcode = opcode, !.data = data]

\* a JSON value: booleans and integers are kept apart
JBool(b) == <<"bool", IF b THEN 1 ELSE 0>>

JInt(n) == <<"int", n>>

\* get_iot_payload of each command: (cmd, data), data as a list of (key, value)
GetIotPayload(command) ==
    CASE command.kind = "status" -> [cmd |-> "turn", data |-> <<>>]
      [] command.kind = "turn" -> [cmd |-> "turn", data |-> <<<<"val", JBool(command.on)>>>>]
      [] command.kind = "brightness" ->
            [cmd |-> "brightness", data |-> <<<<"val", JInt(command.val)>>>>]
      [] command.kind = "other" -> [cmd |-> "other", data |-> <<>>]
      [] command.kind = "color" ->
            [cmd |-> "color", data |-> << <<"red", JInt(command.red)>>,
                                          <<"green", JInt(command.green)>>,
                                          <<"blue", JInt(command.blue)>> >>]
      [] OTHER ->
            [cmd |-> "colorTem", data |-> << <<"color.red", JInt(command.red)>>,
                                             <<"color.green", JInt(command.green)>>,
                                             <<"color.blue", JInt(command.blue)>>,
                                             <<"colorTemInKelvin", JInt(command.kelvin)>> >>]

\* get_bt_payload of each command: None or (opcode, data bytes)
GetBtPayload(command) ==
    CASE command.kind = "status" -> None
      [] command.kind = "turn" -> <<1, <<IF command.on THEN 1 ELSE 0>>>>
      [] command.kind = "brightness" -> <<4, <<command.val % 256>>>>
      [] command.kind = "other" -> <<command.opcode, command.data>>
      [] OTHER -> <<5, <<2, 255, 255, 255, 1, command.red, command.green, command.blue>>>>

\* bytes(list): every element must be in range(0, 256), else ValueError
IsBytes(s) == \A i \in 1..Len(s) : s[i] \in 0..255

RECURSIVE SumAll(_)
SumAll(s) == IF s = <<>> THEN 0 ELSE s[1] + SumAll(Tail(s))

\* BuildPacket with the sum of the bytes as checksum instead of their XOR
BuildPacketSumChecksum(opcode, data) ==
    LET head == <<FrameMarker, opcode>> \o data
        padded == head \o Zeros(PadLen - Len(head))
    IN padded \o <<SumAll(padded) % 256>>

\* lines 519-527 of __publish_bt_payload: marker, opcode, data, padding, checksum
BuildPacket(opcode, data) ==
    LET head == <<FrameMarker, opcode>> \o data
        padded == head \o Zeros(PadLen - Len(head))
    IN padded \o <<XorAll(padded) % 256>>

\* binascii.hexlify: two hexadecimal digits for every byte
HexLify(packet) ==
    [i \in 1..(2 * Len(packet)) |->
        IF i % 2 = 1 THEN packet[(i + 1) \div 2] \div 16 ELSE packet[i \div 2] % 16]

----------------------------------------------------------------------------
(* The calls a handler makes, in program order *)

NoMsg == [accountTopic |-> None, cmd |-> "", data |-> <<>>, state |-> None]

\* one call: what was called, for which device, how it ended, and what it carried
Ev(ev, dev) ==
    [ev |-> ev, dev |-> dev, ok |-> TRUE, text |-> "", cs |-> {}, cap |-> FALSE,
     pooled |-> FALSE, kind |-> "", data |-> <<>>, msg |-> NoMsg, sess |-> "",
     held |-> {}, facts |-> {}, command |-> NoCommand]

Emit(m, e) == [m EXCEPT !.tr = Append(@, e)]

\* self.on_device_update(self, device, raw)
OnDeviceUpdate(m, d, raw) == Emit(m, [Ev("on_device_update", d) EXCEPT !.text = raw])

\* self.on_error(self, device, message, detail)
OnError(m, d, message, payload, detail) ==
    Emit(m, [Ev("on_error", d) EXCEPT !.text = message, !.msg = payload, !.data = detail])

\* device._add_connection_status(status), then on_device_update if it returned True
AddStatusAndNotify(m, d, status) ==
    LET r == AddConnectionStatus(m.devs[d].connection_status, status)
        m1 == [m EXCEPT !.devs[d].connection_status = r.cs]
    IN IF r.changed THEN OnDeviceUpdate(m1, d, "None") ELSE m1

\* RemoveStatusAndNotify that raises on_device_update whatever was returned
RemoveStatusAlwaysNotify(m, d, status) ==
    LET r == RemoveConnectionStatus(m.devs[d].connection_status, status)
    IN OnDeviceUpdate([m EXCEPT !.devs[d].connection_status = r.cs], d, "None")

\* device._remove_connection_status(status), then on_device_update if it returned True
RemoveStatusAndNotify(m, d, status) ==
    LET r == RemoveConnectionStatus(m.devs[d].connection_status, status)
        m1 == [m EXCEPT !.devs[d].connection_status = r.cs]
    IN IF r.changed THEN OnDeviceUpdate(m1, d, "None") ELSE m1

\* GoveeDevice._bt_address: identifier[6:]
BtAddress(identifier) == SubSeq(identifier, 7, Len(identifier))

----------------------------------------------------------------------------
(* api.py: command dispatch.  m is the Govee object with the trace so far;  *)
(* env holds what the collaborators answer during the handler:              *)
(*   pubFail  devices for which MQTT publish raises                         *)
(*   startOk  whether the Bluetooth adapter starts                          *)
(*   fails    number of Bluetooth connect attempts that raise               *)
(*   writeOk  whether char_write returns                                    *)

\* raise GoveeException / an exception leaving the handler
Raise(m, what) == [Emit(m, [Ev("raise", None) EXCEPT !.text = what]) EXCEPT !.exc = TRUE]

\* Govee.__init_bluetooth_if_required
InitBluetoothIfRequired(m, env) ==
    IF ~m.btrun
    THEN IF env.startOk
         THEN [m |-> Emit([m EXCEPT !.btrun = TRUE], Ev("bt_start", None)), ok |-> TRUE]
         ELSE [m |-> OnError(Emit(m, [Ev("bt_start", None) EXCEPT !.ok = FALSE]), None,
                             "Unable to initialize Bluetooth adapter", NoMsg, <<>>),
               ok |-> FALSE]
    ELSE [m |-> m, ok |-> TRUE]

\* ConnectSucceeded that sets BT_CONNECTED without raising on_device_update
ConnectSucceededNoUpdate(m, d) ==
    LET addr == BtAddress(d)
        m1 == Emit(m, [Ev("bt_connect", d) EXCEPT !.data = addr])
        m2 == [m1 EXCEPT !.pool = [a \in DOMAIN m1.pool \cup {addr} |->
                                      IF a = addr THEN "open" ELSE m1.pool[a]]]
    IN [m2 EXCEPT !.devs[d].connection_status =
                      AddConnectionStatus(m2.devs[d].connection_status, BT_CONNECTED).cs]

\* the body of the try block, lines 501-511: the connect returned a handle
ConnectSucceeded(m, d) ==
    LET addr == BtAddress(d)
        m1 == Emit(m, [Ev("bt_connect", d) EXCEPT !.data = addr])
        m2 == [m1 EXCEPT !.pool = [a \in DOMAIN m1.pool \cup {addr} |->
                                      IF a = addr THEN "open" ELSE m1.pool[a]]]
    IN AddStatusAndNotify(m2, d, BT_CONNECTED)

RECURSIVE ConnectLoopOneMore(_, _, _, _, _)
\* ConnectLoop that tests `retries <= 10`
ConnectLoopOneMore(m, d, retries, last_exception, env) ==
    IF retries <= MaxRetries
    THEN IF retries >= env.fails
         THEN [m |-> ConnectSucceeded(m, d), retries |-> retries,
               last_exception |-> last_exception]
         ELSE ConnectLoopOneMore(Emit(m, [Ev("bt_connect", d) EXCEPT !.ok = FALSE,
                                                                     !.data = <<retries + 1>>]),
                                 d, retries + 1, <<retries + 1>>, env)
    ELSE [m |-> m, retries |-> retries, last_exception |-> last_exception]

RECURSIVE ConnectLoop(_, _, _, _, _)
\* while retries < 10: try connect ... except: retries = retries + 1
ConnectLoop(m, d, retries, last_exception, env) ==
    IF retries < MaxRetries
    THEN IF retries >= env.fails
         THEN [m |-> ConnectSucceeded(m, d), retries |-> retries,
               last_exception |-> last_exception]
         ELSE ConnectLoop(Emit(m, [Ev("bt_connect", d) EXCEPT !.ok = FALSE,
                                                              !.data = <<retries + 1>>]),
                          d, retries + 1, <<retries + 1>>, env)
    ELSE [m |-> m, retries |-> retries, last_exception |-> last_exception]

\* GetOrOpenBluetooth that gives up after the last attempt without reporting it
GetOrOpenBluetoothSilent(m, d, env) ==
    IF BtAddress(d) \in DOMAIN m.pool
    THEN [m |-> m, have |-> TRUE]
    ELSE LET r == ConnectLoop(m, d, 0, None, env)
         IN [m |-> r.m, have |-> r.retries # MaxRetries]

\* lines 491-517: the pooled handle, or a new connection; have = FALSE after line 517
GetOrOpenBluetooth(m, d, env) ==
    IF BtAddress(d) \in DOMAIN m.pool
    THEN [m |-> m, have |-> TRUE]
    ELSE LET r == ConnectLoop(m, d, 0, None, env)
         IN IF r.retries = MaxRetries
            THEN [m |-> OnError(r.m, d, "Unable to connect to device via Bluetooth",
                                NoMsg, r.last_exception),
                  have |-> FALSE]
            ELSE [m |-> r.m, have |-> TRUE]

\* SendFailed that lets the exception of char_write reach the caller
SendFailedRaises(m, d, packet) ==
    Raise(OnError(m, d, "Unable to send data via Bluetooth", NoMsg, HexLify(packet)),
          "BLEError")

\* the except block of the send, lines 532-544
SendFailed(m, d, packet) ==
    LET addr == BtAddress(d)
        m1 == OnError(m, d, "Unable to send data via Bluetooth", NoMsg, HexLify(packet))
        m2 == RemoveStatusAndNotify(m1, d, BT_CONNECTED)
        m3 == Emit(m2, [Ev("bt_disconnect", d) EXCEPT !.data = addr])
    IN [m3 EXCEPT !.pool[addr] = "closed"]

\* lines 519-544: build the packet and write it on the handle
SendPacket(m, d, payload, env) ==
    IF ~IsBytes(<<payload[1]>> \o payload[2])
    THEN Raise(m, "ValueError")
    ELSE LET packet == BuildPacket(payload[1], payload[2])
             w == [Ev("bt_write", d) EXCEPT !.data = packet, !.ok = env.writeOk,
                                            !.sess = m.pool[BtAddress(d)],
                                            !.cs = m.devs[d].connection_status]
         IN IF env.writeOk THEN Emit(m, w) ELSE SendFailed(Emit(m, w), d, packet)

\* PublishBtPayload that looks at the length of the data after connecting
PublishBtPayloadConnectFirst(m, d, command, env) ==
    LET m0 == Emit(m, [Ev("bt_path", d) EXCEPT !.kind = command.kind])
        i == InitBluetoothIfRequired(m0, env)
        payload == GetBtPayload(command)
    IN IF ~i.ok THEN i.m
       ELSE IF payload = None THEN i.m
       ELSE LET c == GetOrOpenBluetooth(i.m, d, env)
            IN IF Len(payload[2]) > MaxBtPayload
               THEN Raise(c.m, "Bluetooth data payload too long")
               ELSE IF ~c.have THEN c.m ELSE SendPacket(c.m, d, payload, env)

\* Govee.__publish_bt_payload
PublishBtPayload(m, d, command, env) ==
    LET m0 == Emit(m, [Ev("bt_path", d) EXCEPT !.kind = command.kind])
        i == InitBluetoothIfRequired(m0, env)
        payload == GetBtPayload(command)
    IN IF ~i.ok THEN i.m
       ELSE IF payload = None THEN i.m
       ELSE IF Len(payload[2]) > MaxBtPayload
            THEN Raise(i.m, "Bluetooth data payload too long")
       ELSE LET c == GetOrOpenBluetooth(i.m, d, env)
            IN IF ~c.have THEN c.m ELSE SendPacket(c.m, d, payload, env)

\* the envelope built at lines 551-562
IotEnvelope(m, command) ==
    LET p == GetIotPayload(command)
    IN [NoMsg EXCEPT !.accountTopic = m.topic, !.cmd = p.cmd, !.data = p.data]

\* Govee.__publish_iot_payload: the object afterwards and the returned flag
PublishIotPayload(m, d, command, env) ==
    LET json == IotEnvelope(m, command)
        ok == m.conn # "none" /\ d \notin env.pubFail
        p == [Ev("mqtt_publish", d) EXCEPT !.ok = ok, !.msg = json, !.sess = m.conn,
                                           !.kind = command.kind,
                                           !.cs = m.devs[d].connection_status]
    IN IF ok
       THEN [m |-> Emit(m, p), sent |-> TRUE]
       ELSE [m |-> RemoveStatusAndNotify(
                       OnError(Emit(m, p), d, "Unable to send data via MQTT", json, <<>>),
                       d, IOT_CONNECTED),
             sent |-> FALSE]

\* UseIot without the check of the device's IOT capability
UseIotAnyDevice(device, command) ==
    IOT_CONNECTED \subseteq device.connection_status \/ command.kind = "status"

\* UseIot without the exception for status commands
UseIotConnectedOnly(device, command) ==
    device.iot_device /\ IOT_CONNECTED \subseteq device.connection_status

\* the condition of lines 468-469
UseIot(device, command) ==
    device.iot_device /\ (IOT_CONNECTED \subseteq device.connection_status
                          \/ command.kind = "status")

\* UseBt that sends via Bluetooth whatever the broker publish returned
UseBtAlways(iot_sent) == TRUE

\* line 473: fall back to Bluetooth
UseBt(iot_sent) == ~iot_sent

\* Govee._publish_command
PublishCommand(m, d, command, env) ==
    IF m.exc THEN m
    ELSE LET m0 == Emit(m, [Ev("dispatch", d) EXCEPT !.kind = command.kind,
                                !.cs = m.devs[d].connection_status,
                                !.cap = m.devs[d].iot_device,
                                !.pooled = BtAddress(d) \in DOMAIN m.pool,
                                !.command = command])
             r == IF UseIot(m.devs[d], command)
                  THEN PublishIotPayload(m0, d, command, env)
                  ELSE [m |-> m0, sent |-> FALSE]
             m1 == IF UseBt(r.sent) THEN PublishBtPayload(r.m, d, command, env) ELSE r.m
         IN IF m1.exc THEN m1 ELSE Emit(m1, [Ev("return", d) EXCEPT !.kind = command.kind])

----------------------------------------------------------------------------
(* api.py: the broker session.  env also holds                              *)
(*   login      the answer of the login request                             *)
(*   connectOk, subscribeOk   whether MQTT connect / subscribe return       *)

\* Govee.__token_is_valid: set, at least 10 characters, and jwt.decode accepts it
TokenIsValid(token) ==
    IF token = None \/ token[1].len < 10 THEN FALSE ELSE token[1].decodes

\* lines 212-214: both files of __get_absolute_cert_files exist
CertFilesExist(cert) == cert = Some("known")

\* LoginRequired that asks for a login at every invocation
LoginAlwaysRequired(m) == TRUE

\* the condition of line 168
LoginRequired(m) == ~TokenIsValid(m.token) \/ m.cert = None \/ m.topic = None

\* DoLoginRequest that repeats the request once when the status says failure
DoLoginRequestRetries(m, env) ==
    LET m0 == Emit(m, Ev("http_login", None))
        m1 == IF env.login.http_ok /\ env.login.status # HttpOk
              THEN Emit(m0, Ev("http_login", None)) ELSE m0
        res == env.login
        m2 == [m1 EXCEPT !.token = Some(res.token)]
        m3 == [m2 EXCEPT !.cert = Some(res.cert)]
    IN IF ~res.http_ok THEN Raise(m1, "HTTPError")
       ELSE IF res.status # HttpOk THEN Raise(m1, "Govee answered with login status")
       ELSE IF ~TokenIsValid(m2.token) THEN Raise(m2, "Govee sent us an invalid JWT")
       ELSE IF ~CertFilesExist(m3.cert) THEN Raise(m3, "Govee requires the certificate")
       ELSE [m3 EXCEPT !.topic = Some(res.topic)]

\* lines 173-218: the login request and the checks of its response
DoLoginRequest(m, env) ==
    LET m1 == Emit(m, Ev("http_login", None))
        res == env.login
        m2 == [m1 EXCEPT !.token = Some(res.token)]
        m3 == [m2 EXCEPT !.cert = Some(res.cert)]
    IN IF ~res.http_ok THEN Raise(m1, "HTTPError")
       ELSE IF res.status # HttpOk THEN Raise(m1, "Govee answered with login status")
       ELSE IF ~TokenIsValid(m2.token) THEN Raise(m2, "Govee sent us an invalid JWT")
       ELSE IF ~CertFilesExist(m3.cert) THEN Raise(m3, "Govee requires the certificate")
       ELSE [m3 EXCEPT !.topic = Some(res.topic)]

\* lines 226-230: disconnect the old client, whatever it answers
DisconnectOld(m) ==
    IF m.conn # "none"
    THEN [Emit(m, [Ev("mqtt_disconnect", None) EXCEPT !.sess = m.conn])
            EXCEPT !.conn = "disconnected"]
    ELSE m

RECURSIVE ClearIotFlags(_, _)
\* lines 233-235: for gdev in self.__devices.values(), in insertion order
ClearIotFlags(m, ids) ==
    IF ids = <<>> THEN m
    ELSE ClearIotFlags(RemoveStatusAndNotify(m, Head(ids), IOT_CONNECTED), Tail(ids))

\* the devices whose status holds IOT_CONNECTED
IotHolders(m) == {d \in DOMAIN m.devs : IOT_CONNECTED \subseteq m.devs[d].connection_status}

\* lines 238-250: the new client, connect, subscribe
ConnectAndSubscribe(m, env) ==
    LET m1 == [Emit(m, [Ev("mqtt_new", None) EXCEPT !.held = IotHolders(m)])
                  EXCEPT !.conn = "created"]
        m2 == Emit(m1, [Ev("mqtt_connect", None) EXCEPT !.ok = env.connectOk])
        m3 == [m2 EXCEPT !.conn = "connected"]
        m4 == Emit(m3, [Ev("mqtt_subscribe", None) EXCEPT !.ok = env.subscribeOk,
                            !.msg = [NoMsg EXCEPT !.accountTopic = m.topic],
                            !.held = IotHolders(m)])
    IN IF ~env.connectOk THEN Raise(m2, "connectError")
       ELSE IF ~env.subscribeOk THEN Raise(m4, "subscribeError")
       ELSE [m4 EXCEPT !.conn = "subscribed"]

\* ResetSession that leaves the IOT_CONNECTED flags of the devices alone
ResetSessionKeepFlags(m, env) == ConnectAndSubscribe(DisconnectOld(m), env)

\* ResetSession that clears the flags after the new client has subscribed
ResetSessionClearLast(m, env) ==
    LET m1 == ConnectAndSubscribe(DisconnectOld(m), env)
    IN IF m1.exc THEN m1 ELSE ClearIotFlags(m1, m.order)

\* lines 220-250: the session reset
ResetSession(m, env) == ConnectAndSubscribe(ClearIotFlags(DisconnectOld(m), m.order), env)

\* Govee.__login_if_required
LoginIfRequired(m, env) ==
    IF m.exc THEN m
    ELSE LET m0 == Emit(m, [Ev("login_if_required", None) EXCEPT
                                !.sess = m.conn, !.held = IotHolders(m),
                                !.facts = (IF m.token # None THEN {"token"} ELSE {})
                                          \cup (IF m.token # None /\ m.token[1].len >= 10
                                                   /\ m.token[1].decodes
                                                THEN {"jwt"} ELSE {})
                                          \cup (IF m.cert # None THEN {"cert"} ELSE {})
                                          \cup (IF m.topic # None THEN {"topic"} ELSE {})])
         IN IF LoginRequired(m)
            THEN LET m1 == DoLoginRequest(m0, env)
                 IN IF m1.exc THEN m1 ELSE ResetSession(m1, env)
            ELSE m0

----------------------------------------------------------------------------
(* api.py / device_factory.py / device.py: the device registry.  env also   *)
(* holds   list   the answer of the device list request                     *)

\* GetDeviceFactory without the check of the length of the product code
GetDeviceFactoryAnyLength(sku) ==
    IF sku[1] # "H" THEN None
    ELSE IF SubSeq(sku, 2, 3) = <<"6", "0">> THEN Some("_GoveeBulbFactory")
    ELSE IF SubSeq(sku, 2, 3) = <<"6", "1">> THEN Some("_GoveeLedStripFactory")
    ELSE None

\* Govee.__get_device_factory: None, or the factory chosen by sku[1:3]
GetDeviceFactory(sku) ==
    IF Len(sku) < 5 \/ sku[1] # "H" THEN None
    ELSE IF SubSeq(sku, 2, 3) = <<"6", "0">> THEN Some("_GoveeBulbFactory")
    ELSE IF SubSeq(sku, 2, 3) = <<"6", "1">> THEN Some("_GoveeLedStripFactory")
    ELSE None

\* _GoveeBulbFactory.build / _GoveeLedStripFactory.build: the class that is built
FactoryBuild(factory, sku) ==
    IF factory = "_GoveeBulbFactory"
    THEN IF sku = <<"H", "6", "0", "8", "5">> THEN "GoveeWhiteBulb" ELSE "GoveeBulb"
    ELSE "GoveeLedStrip"

\* lines 343-352: the IotConnectionStatus derived from the raw device
IotHint(raw) ==
    IF raw.online # None
    THEN IF raw.online[1] THEN "ONLINE" ELSE "OFFLINE"
    ELSE IF ~raw.wifiName THEN "NO_IOT" ELSE "UNKNOWN"

\* GoveeDevice.__init__ and the __init__ of its subclasses
NewDevice(class, topic, sku, name, iot_connected) ==
    [class |-> class, topic |-> topic, sku |-> sku, name |-> name,
     iot_device |-> iot_connected # "NO_IOT",
     connection_status |-> IF iot_connected = "ONLINE" THEN IOT_CONNECTED ELSE OFFLINE,
     on |-> None, brightness |-> None, color |-> None, color_temperature |-> None]

\* InsertDevice that raises on_new_device before the device is registered
InsertDeviceNotifyFirst(m, identifier, device) ==
    LET m1 == Emit(m, [Ev("on_new_device", identifier) EXCEPT !.held = DOMAIN m.devs])
    IN [m1 EXCEPT !.devs = [i \in DOMAIN m.devs \cup {identifier} |->
                               IF i = identifier THEN device ELSE m.devs[i]],
                  !.order = Append(m.order, identifier)]

\* lines 353-356: register the device and raise on_new_device; held is the
\* set of registered identifiers when the handler is called
InsertDevice(m, identifier, device) ==
    LET m1 == [m EXCEPT !.devs = [i \in DOMAIN m.devs \cup {identifier} |->
                                     IF i = identifier THEN device ELSE m.devs[i]],
                        !.order = Append(m.order, identifier)]
    IN Emit(m1, [Ev("on_new_device", identifier) EXCEPT !.held = DOMAIN m1.devs])

\* lines 325-356: one raw device of the list
UpsertDevice(m, raw) ==
    IF raw.device = <<>> \/ raw.sku = <<>> THEN m
    ELSE IF ~raw.address /\ raw.topic = None THEN m
    ELSE IF raw.topic = None THEN Raise(m, "KeyError: topic")
    ELSE IF raw.device \in DOMAIN m.devs
         THEN [m EXCEPT !.devs[raw.device].name = raw.deviceName]
    ELSE LET factory == GetDeviceFactory(raw.sku)
         IN IF factory = None THEN m
            ELSE InsertDevice(m, raw.device,
                              NewDevice(FactoryBuild(factory[1], raw.sku), raw.topic[1],
                                        raw.sku, raw.deviceName, IotHint(raw)))

RECURSIVE UpsertAll(_, _)
\* line 324: for raw_device in res['devices']
UpsertAll(m, raws) ==
    IF raws = <<>> \/ m.exc THEN m ELSE UpsertAll(UpsertDevice(m, Head(raws)), Tail(raws))

\* lines 276-356 of __http_update_device_list: the request and its answer
FetchDeviceList(m1, env) ==
    LET answered == env.list.http_ok /\ env.list.status = HttpOk
        m2 == Emit(m1, [Ev("http_list", None) EXCEPT
                           !.ok = answered,
                           !.data = IF answered THEN env.list.devices ELSE <<>>])
    IN IF m1.exc THEN m1
       ELSE IF ~env.list.http_ok THEN Raise(m2, "HTTPError")
       ELSE IF env.list.status # HttpOk
            THEN Raise(m2, "Govee answered with device list status")
       ELSE UpsertAll(m2, env.list.devices)

\* Govee.__http_update_device_list
HttpUpdateDeviceList(m, env) == FetchDeviceList(LoginIfRequired(m, env), env)

RECURSIVE RequestStatusAll(_, _, _)
\* lines 264-265: for gdev in self.__devices.values(): gdev.request_status()
RequestStatusAll(m, ids, env) ==
    IF ids = <<>> THEN m
    ELSE RequestStatusAll(PublishCommand(m, Head(ids), StatusCommand, env), Tail(ids), env)

\* Govee.update_device_list
DoUpdateDeviceList(m, env) ==
    LET m1 == HttpUpdateDeviceList(m, env)
    IN IF m1.exc THEN m1 ELSE RequestStatusAll(m1, m1.order, env)

----------------------------------------------------------------------------
(* device.py: merging a pushed state into a device.  A float is the pair    *)
(* <<numerator, denominator>>; a colour is its three components over 255.   *)

RatEq(a, b) == a[1] * b[2] = b[1] * a[2]

\* int(round(x)) of a non-negative x = num / den: halves go to the even neighbour
PyRound(num, den) ==
    LET fl == num \div den
        rem == num % den
    IN IF 2 * rem < den THEN fl
       ELSE IF 2 * rem > den THEN fl + 1
       ELSE IF fl % 2 = 0 THEN fl ELSE fl + 1

\* line 110: (isinstance(conn, bool) and conn) or conn == 'true'
ConnTruthy(conn) == (conn.t = "bool" /\ conn.v = "true") \/ (conn.t = "str" /\ conn.v = "true")

\* GoveeDevice._update_state
GoveeDeviceUpdateState(m, d, state) ==
    IF state.connected = None THEN Raise(m, "KeyError: connected")
    ELSE LET cs == m.devs[d].connection_status
             r == IF ConnTruthy(state.connected[1])
                  THEN AddConnectionStatus(cs, IOT_CONNECTED)
                  ELSE RemoveConnectionStatus(cs, IOT_CONNECTED)
         IN [m EXCEPT !.devs[d].connection_status = r.cs]

\* ToggleableGoveeDevice._update_state
ToggleableUpdateState(m, d, state) ==
    LET m1 == GoveeDeviceUpdateState(m, d, state)
    IN IF m1.exc THEN m1
       ELSE IF state.onOff = None THEN Raise(m1, "KeyError: onOff")
       ELSE [m1 EXCEPT !.devs[d].on = Some(state.onOff[1] = 1)]

\* GoveeLight._update_state: max(min(state['brightness'] / 255, 1.0), 0.0)
GoveeLightUpdateState(m, d, state) ==
    LET m1 == ToggleableUpdateState(m, d, state)
    IN IF m1.exc THEN m1
       ELSE IF state.brightness = None THEN Raise(m1, "KeyError: brightness")
       ELSE [m1 EXCEPT !.devs[d].brightness =
                            Some(<<Max(Min(state.brightness[1], 255), 0), 255>>)]

\* FixColorTemperature without the lower limit
FixColorTemperatureUpperOnly(color_temperature) ==
    IF color_temperature # 0 THEN Min(color_temperature, KelvinMax) ELSE 0

\* GoveeRgbLight.__fix_color_temperature
FixColorTemperature(color_temperature) ==
    IF color_temperature # 0
    THEN Max(Min(color_temperature, KelvinMax), KelvinMin)
    ELSE 0

\* GoveeRgbLight._update_state
GoveeRgbLightUpdateState(m, d, state) ==
    LET m1 == GoveeLightUpdateState(m, d, state)
        m2 == [m1 EXCEPT !.devs[d].color_temperature =
                             IF state.colorTemInKelvin # None
                             THEN Some(FixColorTemperature(state.colorTemInKelvin[1]))
                             ELSE None]
    IN IF m1.exc THEN m1
       ELSE [m2 EXCEPT !.devs[d].color = IF state.color # None THEN state.color ELSE None]

IsRgbClass(class) == class \in {"GoveeBulb", "GoveeLedStrip"}

\* device._update_state(state), by the class of the device
UpdateState(m, d, state) ==
    IF IsRgbClass(m.devs[d].class)
    THEN GoveeRgbLightUpdateState(m, d, state)
    ELSE GoveeLightUpdateState(m, d, state)

\* the message handed to __mqtt_topic_callback: ok when it names a device
Delivered(m, message) ==
    LET named == message.state # None /\ message.state[1].device # None
    IN Emit(m, [Ev("mqtt_message", IF named THEN message.state[1].device[1] ELSE None)
                   EXCEPT !.ok = named, !.msg = [NoMsg EXCEPT !.state = message.state]])

\* lines 439-445 of __mqtt_topic_callback: the second lookup, the update
ApplyPush(m1, message) ==
    LET state == message.state[1]
        d == state.device[1]
    IN IF m1.exc \/ d \notin DOMAIN m1.devs THEN m1
       ELSE LET m2 == UpdateState(m1, d, state)
            IN IF m2.exc THEN m2 ELSE OnDeviceUpdate(m2, d, "raw_json")

\* MqttTopicCallback that refreshes the device list for every message
MqttTopicCallbackAlwaysRefresh(m, message, env) ==
    LET m0 == Delivered(m, message)
    IN IF message.state = None THEN m0
       ELSE LET state == message.state[1]
            IN IF state.device = None THEN Raise(m0, "KeyError: device")
               ELSE LET d == state.device[1]
                        m1 == HttpUpdateDeviceList(m0, env)
                    IN IF m1.exc \/ d \notin DOMAIN m1.devs THEN m1
                       ELSE LET m2 == UpdateState(m1, d, state)
                            IN IF m2.exc THEN m2 ELSE OnDeviceUpdate(m2, d, "raw_json")

\* Govee.__mqtt_topic_callback
MqttTopicCallback(m, message, env) ==
    LET m0 == Delivered(m, message)
    IN IF message.state = None THEN m0
       ELSE IF message.state[1].device = None THEN Raise(m0, "KeyError: device")
       ELSE IF message.state[1].device[1] \notin DOMAIN m0.devs
            THEN ApplyPush(HttpUpdateDeviceList(m0, env), message)
       ELSE ApplyPush(m0, message)

----------------------------------------------------------------------------
(* device.py: what the application calls on a device *)

\* ToggleableGoveeDevice.request_status
DoRequestStatus(m, d, env) == PublishCommand(m, d, StatusCommand, env)

\* Turn that sends the command whatever the cached value is
TurnAlways(m, d, val, env) ==
    PublishCommand(Emit(m, [Ev("turn", d) EXCEPT !.command = TurnCommand(val),
                                                 !.data = m.devs[d].on]),
                   d, TurnCommand(val), env)

\* Turn that stores the value it sent as the cached value
TurnCaches(m, d, val, env) ==
    LET m0 == Emit(m, [Ev("turn", d) EXCEPT !.command = TurnCommand(val),
                                            !.data = m.devs[d].on])
        m1 == PublishCommand(m0, d, TurnCommand(val), env)
    IN IF Some(val) # m.devs[d].on THEN [m1 EXCEPT !.devs[d].on = Some(val)] ELSE m0

\* ToggleableGoveeDevice.__turn, entered with val while the cached value is data
Turn(m, d, val, env) ==
    LET m0 == Emit(m, [Ev("turn", d) EXCEPT !.command = TurnCommand(val),
                                            !.data = m.devs[d].on])
    IN IF Some(val) # m.devs[d].on THEN PublishCommand(m0, d, TurnCommand(val), env) ELSE m0

\* ToggleableGoveeDevice.toggle: not self.on
ToggleValue(on) == IF on = None THEN TRUE ELSE ~on[1]

\* CalcBrightness with int() in the place of int(round())
CalcBrightnessTruncates(brightness) ==
    IF brightness[1] # 0
    THEN Max(Min((brightness[1] * 255) \div brightness[2], 255), 0)
    ELSE 0

\* GoveeLight.__calc_brightness
CalcBrightness(brightness) ==
    IF brightness[1] # 0
    THEN Max(Min(PyRound(brightness[1] * 255, brightness[2]), 255), 0)
    ELSE 0

\* GoveeLight.brightness setter, entered with val while the cached value is cur
SetBrightnessValue(m, d, val, env) ==
    LET cur == m.devs[d].brightness
        m0 == Emit(m, [Ev("brightness", d) EXCEPT !.data = <<val, cur>>])
    IN IF cur = None \/ ~RatEq(val, cur[1])
       THEN PublishCommand(m0, d, BrightnessCommand(CalcBrightness(val)), env)
       ELSE m0

\* GoveeRgbLight._calc_color: None, (red, green, blue), or "raise"
CalcColor(cur, val) ==
    IF val.t = "Color"
    THEN IF Some(val.rgb) = cur THEN None ELSE Some(val.rgb)
    ELSE IF val.t = "tuple" /\ Len(val.rgb) = 3
         THEN IF cur # None /\ cur[1] = val.rgb THEN None ELSE Some(val.rgb)
    ELSE Some(<<"raise">>)

\* GoveeRgbLight.color setter
SetColorValue(m, d, val, env) ==
    LET color == CalcColor(m.devs[d].color, val)
    IN IF color = None THEN m
       ELSE IF color = Some(<<"raise">>) THEN Raise(m, "Invalid color value provided")
       ELSE PublishCommand(m, d, ColorCommand(color[1][1], color[1][2], color[1][3]), env)

\* GoveeRgbLight.__kelvin_to_color at the temperatures the model sends
KelvinToColor(color_temperature) ==
    CASE color_temperature = 1000 -> <<255, 68, 0>>
      [] color_temperature = 2000 -> <<255, 137, 14>>
      [] color_temperature = 5000 -> <<255, 228, 206>>
      [] color_temperature = 9000 -> <<210, 223, 255>>

\* GoveeRgbLight.color_temperature setter
SetColorTemperatureValue(m, d, val, env) ==
    LET color_temp == FixColorTemperature(val)
        rgb == KelvinToColor(color_temp)
    IN IF color_temp > 0 /\ Some(color_temp) # m.devs[d].color_temperature
       THEN PublishCommand(m, d, ColorTemperatureCommand(color_temp, rgb[1], rgb[2], rgb[3]), env)
       ELSE m

----------------------------------------------------------------------------
(* The world the client runs in: the account's devices and what the         *)
(* collaborators may answer.                                                *)

\* identifiers "AA:BB:01" and "AA:BB:02"; the Bluetooth address is identifier[6:]
D1 == <<"A", "A", ":", "B", "B", ":", "0", "1">>

D2 == <<"A", "A", ":", "B", "B", ":", "0", "2">>

Ids == {D1, D2}

SkuStrip == <<"H", "6", "1", "5", "9">>

SkuBulb == <<"H", "6", "0", "0", "1">>

\* one entry of res['devices'], with the parts of deviceSettings / lastDeviceData read
RawDevice(id, sku, name, address, topic, wifi, online) ==
    [device |-> id, sku |-> sku, deviceName |-> name, address |-> address,
     topic |-> topic, wifiName |-> wifi, online |-> online]

\* D1 is a strip on the wifi, last seen online or offline
RawD1(online) == RawDevice(D1, SkuStrip, "Kitchen", TRUE, Some("GD/1"), TRUE, Some(online))

\* D2 is a bulb that was never on the wifi: no IOT
RawD2NoIot == RawDevice(D2, SkuBulb, "Desk", TRUE, Some("GD/2"), FALSE, None)

\* D2 is a bulb on the wifi, last seen online
RawD2Iot == RawDevice(D2, SkuBulb, "Desk", TRUE, Some("GD/2"), TRUE, Some(TRUE))

SeqsUpTo(S, n) == UNION { [1..k -> S] : k \in 0..n }

OkList(l) == [http_ok |-> TRUE, status |-> HttpOk, devices |-> l]

ListResponses(raws) ==
    { OkList(l) : l \in SeqsUpTo(raws, MaxListLen) }
    \cup { [http_ok |-> FALSE, status |-> 0, devices |-> <<>>],
           [http_ok |-> TRUE, status |-> 401, devices |-> <<>>] }

GoodToken == [len |-> 120, decodes |-> TRUE]

GoodLogin == [http_ok |-> TRUE, status |-> HttpOk, token |-> GoodToken, cert |-> "known", topic |-> "GA/1"]

\* the login answers that fail one check each
BadLogins ==
    { [GoodLogin EXCEPT !.http_ok = FALSE],
      [GoodLogin EXCEPT !.status = 401],
      [GoodLogin EXCEPT !.token = [len |-> 9, decodes |-> FALSE]],
      [GoodLogin EXCEPT !.token = [len |-> 120, decodes |-> FALSE]],
      [GoodLogin EXCEPT !.cert = "unknown"] }

\* a pushed state object; absent keys are None
PushState(id, connected, onOff, brightness, color, kelvin) ==
    [device |-> id, connected |-> connected, onOff |-> onOff, brightness |-> brightness,
     color |-> color, colorTemInKelvin |-> kelvin]

StrConn(v) == Some([t |-> "str", v |-> v])

BoolConn(v) == Some([t |-> "bool", v |-> v])

\* the status push of the docstring of __mqtt_topic_callback, for device d
PushOnline(d) ==
    [state |-> Some(PushState(Some(d), StrConn("true"), Some(1), Some(133),
                              Some(<<255, 215, 0>>), Some(0)))]

\* a push that reports device d disconnected and off, without colour keys
PushOffline(d) ==
    [state |-> Some(PushState(Some(d), BoolConn("false"), Some(0), Some(159), None, None))]

\* a message without a state object
PushNoState == [state |-> None]

FailCounts == {0, 1, MaxRetries - 1, MaxRetries}

\* the answers during one handler when nothing fails
CalmEnv ==
    [pubFail |-> {}, startOk |-> TRUE, fails |-> 0, writeOk |-> TRUE, login |-> GoodLogin,
     connectOk |-> TRUE, subscribeOk |-> TRUE, list |-> OkList(<<>>)]

\* the answers of the Bluetooth adapter that one command on d can meet
BtEnvs(m, d, command) ==
    (IF m.btrun THEN {} ELSE { [CalmEnv EXCEPT !.startOk = FALSE] })
    \cup (IF GetBtPayload(command) = None THEN { CalmEnv }
          ELSE IF BtAddress(d) \in DOMAIN m.pool
               THEN { [CalmEnv EXCEPT !.writeOk = w] : w \in BOOLEAN }
          ELSE { [CalmEnv EXCEPT !.fails = f, !.writeOk = w] :
                    f \in FailCounts \ {MaxRetries}, w \in BOOLEAN }
               \cup { [CalmEnv EXCEPT !.fails = MaxRetries] })

\* the answers that one command on device d can meet: the publish is answered
\* only when the command goes to the broker, the adapter only after that failed
DispatchEnvs(m, d, command) ==
    IF UseIot(m.devs[d], command)
    THEN { CalmEnv } \cup { [e EXCEPT !.pubFail = {d}] : e \in BtEnvs(m, d, command) }
    ELSE BtEnvs(m, d, command)

\* the answers that a login can meet: they are read only when a login is required
LoginEnvs(m, logins) ==
    IF LoginRequired(m)
    THEN { [CalmEnv EXCEPT !.login = l] : l \in logins }
         \cup { [CalmEnv EXCEPT !.connectOk = c, !.subscribeOk = sb] :
                  c \in BOOLEAN, sb \in BOOLEAN }
    ELSE { CalmEnv }

\* the answers that a device enumeration can meet
ListEnvs(m, logins, raws) ==
    { [e EXCEPT !.list = l] : e \in LoginEnvs(m, logins), l \in ListResponses(raws) }

----------------------------------------------------------------------------
(* The state machine *)

\* the two threads of the process
PushThread == "push"

CallerThread == "caller"

\* a thread that runs none of the code that is followed statement by statement
Idle ==
    [pc |-> "idle", message |-> [state |-> None], remaining |-> <<>>,
     op |-> "", status |-> {}, tmp |-> {}, changed |-> FALSE, base |-> {}]

IdleThreads == [t \in {PushThread, CallerThread} |-> Idle]

\* the Govee object as the handlers see it, with an empty trace
Cur ==
    [token |-> login_token, cert |-> mqtt_cert_file, topic |-> mqtt_topic,
     conn |-> mqtt_connection, btrun |-> bluetooth_running, devs |-> devices,
     order |-> device_order, pool |-> bluetooth_connections, tr |-> <<>>, exc |-> FALSE]

\* a handler starts with an empty trace and ends in m
Commit(m) ==
    /\ trace = <<>>
    /\ login_token' = m.token
    /\ mqtt_cert_file' = m.cert
    /\ mqtt_topic' = m.topic
    /\ mqtt_connection' = m.conn
    /\ bluetooth_running' = m.btrun
    /\ devices' = m.devs
    /\ device_order' = m.order
    /\ bluetooth_connections' = m.pool
    /\ trace' = m.tr
    /\ UNCHANGED threads

\* Govee.__init__
Init ==
    /\ login_token = None
    /\ mqtt_cert_file = None
    /\ mqtt_topic = None
    /\ mqtt_connection = "none"
    /\ bluetooth_running = TRUE
    /\ devices = <<>>
    /\ device_order = <<>>
    /\ bluetooth_connections = <<>>
    /\ trace = <<>>
    /\ threads = IdleThreads

\* Govee.login
Login(logins) == \E env \in LoginEnvs(Cur, logins) : Commit(LoginIfRequired(Cur, env))

\* Govee.update_device_list
UpdateDeviceList(logins, raws) ==
    \E env \in ListEnvs(Cur, logins, raws), pf \in SUBSET Ids :
        Commit(DoUpdateDeviceList(Cur, [env EXCEPT !.pubFail = pf]))

\* the MQTT client delivers a message on the subscribed topic
MqttMessage(pushes, logins, raws) ==
    /\ mqtt_connection = "subscribed"
    /\ threads[PushThread].pc = "idle"
    /\ \E message \in pushes :
         \E env \in (IF message.state # None /\ message.state[1].device # None
                        /\ message.state[1].device[1] \notin DOMAIN devices
                     THEN ListEnvs(Cur, logins, raws) ELSE {CalmEnv}) :
            Commit(MqttTopicCallback(Cur, message, env))

\* device.request_status()
RequestStatus ==
    \E d \in DOMAIN devices : \E env \in DispatchEnvs(Cur, d, StatusCommand) :
        Commit(DoRequestStatus(Cur, d, env))

\* device.on = val
SetOn ==
    \E d \in DOMAIN devices, val \in BOOLEAN : \E env \in DispatchEnvs(Cur, d, TurnCommand(val)) :
        Commit(Turn(Cur, d, val, env))

\* device.toggle()
Toggle ==
    \E d \in DOMAIN devices : \E env \in DispatchEnvs(Cur, d, TurnCommand(TRUE)) :
        Commit(Turn(Cur, d, ToggleValue(devices[d].on), env))

\* device.brightness = val
SetBrightness(vals) ==
    \E d \in DOMAIN devices, val \in vals : \E env \in DispatchEnvs(Cur, d, BrightnessCommand(0)) :
        Commit(SetBrightnessValue(Cur, d, val, env))

\* device.color = val
SetColor(vals) ==
    \E d \in DOMAIN devices, val \in vals : \E env \in DispatchEnvs(Cur, d, ColorCommand(0, 0, 0)) :
        /\ IsRgbClass(devices[d].class)
        /\ Commit(SetColorValue(Cur, d, val, env))

\* device.color_temperature = val
SetColorTemperature(vals) ==
    \E d \in DOMAIN devices, val \in vals : \E env \in DispatchEnvs(Cur, d, ColorCommand(0, 0, 0)) :
        /\ IsRgbClass(devices[d].class)
        /\ Commit(SetColorTemperatureValue(Cur, d, val, env))

\* device._publish_command(command) with a command of another subclass
SendOther(opcodes, payloads) ==
    \E d \in DOMAIN devices, op \in opcodes, data \in payloads :
        \E env \in DispatchEnvs(Cur, d, OtherCommand(op, data)) :
            Commit(PublishCommand(Cur, d, OtherCommand(op, data), env))

\* jwt.decode stops accepting the stored token (lines 383-388)
TokenExpires ==
    /\ trace = <<>>
    /\ TokenIsValid(login_token)
    /\ login_token' = Some([login_token[1] EXCEPT !.decodes = FALSE])
    /\ trace' = <<>>
    /\ UNCHANGED <<mqtt_cert_file, mqtt_topic, mqtt_connection, bluetooth_running,
                   devices, device_order, bluetooth_connections, threads>>

\* the Bluetooth adapter's _running event is cleared (line 450)
AdapterStops ==
    /\ trace = <<>>
    /\ bluetooth_running
    /\ bluetooth_running' = FALSE
    /\ trace' = <<>>
    /\ UNCHANGED <<login_token, mqtt_cert_file, mqtt_topic, mqtt_connection,
                   devices, device_order, bluetooth_connections, threads>>

\* the handler has returned: its calls are dropped before the next handler starts
Forget ==
    /\ trace # <<>>
    /\ trace' = <<>>
    /\ UNCHANGED <<login_token, mqtt_cert_file, mqtt_topic, mqtt_connection,
                   bluetooth_running, devices, device_order, bluetooth_connections,
                   threads>>

----------------------------------------------------------------------------
(* Spec: the client with two devices of the account *)

DispatchRaws == {RawD1(TRUE), RawD1(FALSE), RawD2NoIot}

DispatchLogins == {[GoodLogin EXCEPT !.status = 401]}

DispatchPushes == {PushNoState, PushOnline(D1), PushOffline(D1)}

\* data one byte longer than a packet can carry
LongData == Zeros(MaxBtPayload + 1)

Next ==
    \/ Login(DispatchLogins)
    \/ UpdateDeviceList(DispatchLogins, DispatchRaws)
    \/ MqttMessage(DispatchPushes, DispatchLogins, DispatchRaws)
    \/ RequestStatus
    \/ SetOn
    \/ Toggle
    \/ SetBrightness({<<1, 2>>})
    \/ SetColor({[t |-> "tuple", rgb |-> <<255, 215, 0>>]})
    \/ SetColorTemperature({5000})
    \/ SendOther({1}, {LongData})
    \/ TokenExpires
    \/ AdapterStops
    \/ Forget

Spec == Init /\ [][Next]_vars

----------------------------------------------------------------------------
(* SpecSession: the broker session, with both devices broker capable *)

SessionRaws == {RawD1(TRUE), RawD1(FALSE), RawD2Iot}

SessionPushes == {PushOnline(D1), PushOffline(D1), PushOnline(D2), PushOffline(D2)}

NextSession ==
    \/ Login(BadLogins)
    \/ UpdateDeviceList(BadLogins, SessionRaws)
    \/ MqttMessage(SessionPushes, BadLogins, SessionRaws)
    \/ RequestStatus
    \/ TokenExpires
    \/ Forget

SpecSession == Init /\ [][NextSession]_vars

----------------------------------------------------------------------------
(* SpecFrame: Bluetooth packets of arbitrary commands on a Bluetooth device *)

FrameOpcodes == {1, 255}

\* data of every length up to the bound, with constant and scattered bytes
FramePayloads ==
    { [i \in 1..n |-> (a + i * st) % 256] :
        n \in 0..PayloadLenBound, a \in {51, 255}, st \in {0, 85} }

NextFrame ==
    \/ UpdateDeviceList({}, {RawD2NoIot})
    \/ SendOther(FrameOpcodes, FramePayloads)
    \/ Forget

SpecFrame == Init /\ [][NextFrame]_vars

----------------------------------------------------------------------------
(* SpecPush: pushed states, complete and with one key missing, for an RGB   *)
(* strip and for a white bulb                                               *)

SkuWhite == <<"H", "6", "0", "8", "5">>

\* D2 is a white bulb on the wifi, last seen offline
RawD2White == RawDevice(D2, SkuWhite, "Hall", TRUE, Some("GD/2"), TRUE, Some(FALSE))

PushRaws == {RawD1(FALSE), RawD2White}

\* a complete status push for device d: on, brightness 200, a colour, 3000 K
PushFull(d) ==
    [state |-> Some(PushState(Some(d), StrConn("true"), Some(1), Some(200),
                              Some(<<10, 20, 30>>), Some(3000)))]

\* the keys of a pushed state that _update_state reads without looking for them
IndexedKeys == {"connected", "onOff", "brightness"}

\* PushFull(d) without the key
PushWithout(d, key) ==
    [state |-> Some([PushFull(d).state[1] EXCEPT ![key] = None])]

StatePushes ==
    UNION { {PushFull(d), PushOffline(d)} \cup { PushWithout(d, k) : k \in IndexedKeys }
            : d \in Ids }

\* a message without a state object, and one whose state names no device
MalformedPushes == {PushNoState, [state |-> Some([PushFull(D1).state[1] EXCEPT !.device = None])]}

NextPush ==
    \/ UpdateDeviceList({}, PushRaws)
    \/ MqttMessage(StatePushes \cup MalformedPushes, {}, PushRaws)
    \/ Forget

SpecPush == Init /\ [][NextPush]_vars

----------------------------------------------------------------------------
(* SpecRegistry: device lists with product codes of every kind, a renamed   *)
(* device and entries that are skipped                                      *)

RegistrySkus ==
    { SkuStrip, SkuBulb, SkuWhite,
      <<"H", "6", "0", "8", "5", "1">>, <<"H", "6", "0", "8">>,
      <<"X", "6", "0", "0", "1">>, <<"H", "7", "0", "2", "2">> }

\* D1 under every product code, D1 under another name, topic and code, D2, and
\* entries without product code, without identifier, without address and topic
RegistryRaws ==
    { RawDevice(D1, sku, "Kitchen", TRUE, Some("GD/1"), TRUE, Some(FALSE)) : sku \in RegistrySkus }
    \cup { RawDevice(D1, SkuBulb, "Porch", TRUE, Some("GD/9"), FALSE, None),
           RawD2NoIot,
           RawDevice(D2, <<>>, "Desk", TRUE, Some("GD/2"), TRUE, None),
           RawDevice(<<>>, SkuBulb, "Desk", TRUE, Some("GD/2"), TRUE, None),
           RawDevice(D2, SkuBulb, "Desk", FALSE, None, TRUE, None) }

RegistryPushes == {PushFull(D1), PushOffline(D2)}

NextRegistry ==
    \/ UpdateDeviceList({}, RegistryRaws)
    \/ MqttMessage(RegistryPushes, {}, RegistryRaws)
    \/ Forget

SpecRegistry == Init /\ [][NextRegistry]_vars

----------------------------------------------------------------------------
(* SpecLight: brightness, colour and colour temperature of an RGB strip,    *)
(* set by the application and pushed by the broker                          *)

\* PushFull(d) with another colour temperature, or without the key
PushKelvin(d, kelvin) ==
    [state |-> Some([PushFull(d).state[1] EXCEPT !.colorTemInKelvin = kelvin])]

LightPushes ==
    { PushKelvin(D1, k) : k \in {None, Some(0), Some(1500), Some(3000), Some(12000)} }
    \cup {PushOffline(D1)}

\* fractions of the full brightness
LightBrightness == {<<0, 1>>, <<1, 3>>, <<1, 2>>, <<200, 255>>, <<1, 1>>}

\* a colour object, tuples of integers, and a value that is neither
LightColors ==
    {[t |-> "Color", rgb |-> <<10, 20, 30>>], [t |-> "tuple", rgb |-> <<255, 215, 0>>],
     [t |-> "tuple", rgb |-> <<300, 0, 0>>], [t |-> "str", rgb |-> <<>>]}

LightKelvins == {0, 1000, 5000, 12000}

NextLight ==
    \/ UpdateDeviceList({}, {RawD1(TRUE)})
    \/ MqttMessage(LightPushes, {}, {})
    \/ SetBrightness(LightBrightness)
    \/ SetColor(LightColors)
    \/ SetColorTemperature(LightKelvins)
    \/ Forget

SpecLight == Init /\ [][NextLight]_vars

----------------------------------------------------------------------------
(* SpecReset: the callback for a message that names an unknown device when  *)
(* a login is required, run statement by statement on the thread that       *)
(* delivers pushes, while the caller's thread sends commands.  The code     *)
(* holds no lock: the steps of the two threads interleave freely.           *)

\* one step of thread t: the object afterwards and the thread afterwards
CommitThread(m, t, th) ==
    /\ trace = <<>>
    /\ login_token' = m.token
    /\ mqtt_cert_file' = m.cert
    /\ mqtt_topic' = m.topic
    /\ mqtt_connection' = m.conn
    /\ bluetooth_running' = m.btrun
    /\ devices' = m.devs
    /\ device_order' = m.order
    /\ bluetooth_connections' = m.pool
    /\ trace' = m.tr
    /\ threads' = [threads EXCEPT ![t] = th]

\* lines 390-218: the message arrives, its device is unknown, a login is
\* required and the login request is made
PushLogin(pushes, logins) ==
    /\ threads[PushThread].pc = "idle"
    /\ mqtt_connection = "subscribed"
    /\ LoginRequired(Cur)
    /\ \E message \in pushes : \E env \in LoginEnvs(Cur, logins) :
          /\ message.state # None
          /\ message.state[1].device # None
          /\ message.state[1].device[1] \notin DOMAIN devices
          /\ LET m1 == DoLoginRequest(Delivered(Cur, message), env)
             IN CommitThread(m1, PushThread,
                             IF m1.exc THEN Idle
                             ELSE [Idle EXCEPT !.pc = "disconnect", !.message = message])

\* lines 225-230: self.__mqtt_connection.disconnect()
ResetDisconnect ==
    /\ threads[PushThread].pc = "disconnect"
    /\ CommitThread(DisconnectOld(Cur), PushThread,
                    [threads[PushThread] EXCEPT
                        !.pc = IF device_order = <<>> THEN "new" ELSE "clear",
                        !.remaining = device_order])

\* lines 233-235: one turn of the loop over self.__devices.values()
ResetClear ==
    /\ threads[PushThread].pc = "clear"
    /\ LET th == threads[PushThread]
       IN CommitThread(RemoveStatusAndNotify(Cur, Head(th.remaining), IOT_CONNECTED),
                       PushThread,
                       [th EXCEPT !.remaining = Tail(@),
                                  !.pc = IF Tail(th.remaining) = <<>> THEN "new" ELSE "clear"])

\* lines 238-244: the new client object is stored in self.__mqtt_connection
ResetNew ==
    /\ threads[PushThread].pc = "new"
    /\ CommitThread([Emit(Cur, Ev("mqtt_new", None)) EXCEPT !.conn = "created"],
                    PushThread, [threads[PushThread] EXCEPT !.pc = "connect"])

\* line 247: self.__mqtt_connection.connect()
ResetConnect ==
    /\ threads[PushThread].pc = "connect"
    /\ \E ok \in BOOLEAN :
          LET m1 == Emit(Cur, [Ev("mqtt_connect", None) EXCEPT !.ok = ok])
          IN IF ok
             THEN CommitThread([m1 EXCEPT !.conn = "connected"], PushThread,
                               [threads[PushThread] EXCEPT !.pc = "subscribe"])
             ELSE CommitThread(Raise(m1, "connectError"), PushThread, Idle)

\* line 250: self.__mqtt_connection.subscribe(...)
ResetSubscribe ==
    /\ threads[PushThread].pc = "subscribe"
    /\ \E ok \in BOOLEAN :
          LET m1 == Emit(Cur, [Ev("mqtt_subscribe", None) EXCEPT
                                  !.ok = ok, !.held = IotHolders(Cur),
                                  !.msg = [NoMsg EXCEPT !.accountTopic = mqtt_topic]])
          IN IF ok
             THEN CommitThread([m1 EXCEPT !.conn = "subscribed"], PushThread,
                               [threads[PushThread] EXCEPT !.pc = "list"])
             ELSE CommitThread(Raise(m1, "subscribeError"), PushThread, Idle)

\* lines 276-445: the device list is fetched and the message is applied
PushFetch(raws) ==
    /\ threads[PushThread].pc = "list"
    /\ \E l \in ListResponses(raws) :
          CommitThread(ApplyPush(FetchDeviceList(Cur, [CalmEnv EXCEPT !.list = l]),
                                 threads[PushThread].message),
                       PushThread, Idle)

ResetRaws == {RawD1(TRUE), RawD2Iot}

NextReset ==
    \/ UpdateDeviceList({}, {RawD1(TRUE)})
    \/ TokenExpires
    \/ PushLogin({PushFull(D2)}, {})
    \/ ResetDisconnect
    \/ ResetClear
    \/ ResetNew
    \/ ResetConnect
    \/ ResetSubscribe
    \/ PushFetch(ResetRaws)
    \/ RequestStatus
    \/ SetOn
    \/ Forget

SpecReset == Init /\ [][NextReset]_vars

----------------------------------------------------------------------------
(* SpecFlags: _add_connection_status and _remove_connection_status run      *)
(* statement by statement on one device by the thread that delivers pushes  *)
(* (GoveeDevice._update_state) and by the caller's thread (the radio and    *)
(* broker paths of a command).  Each read and each write of                 *)
(* __connection_status is a step of its own.                                *)

FlagDevice == D1

\* no thread is inside a flag update
Quiet == \A t \in DOMAIN threads : threads[t].pc = "idle"

\* device.py:111, 113: what _update_state calls for state['connected']
PushFlagOps == {[op |-> "add", status |-> IOT_CONNECTED],
                [op |-> "remove", status |-> IOT_CONNECTED]}

\* api.py:508, 537, 587: what a command calls on the caller's thread
CallerFlagOps == {[op |-> "add", status |-> BT_CONNECTED],
                  [op |-> "remove", status |-> BT_CONNECTED],
                  [op |-> "remove", status |-> IOT_CONNECTED]}

\* the first statement of the called method
Entered(o, cs) ==
    [Idle EXCEPT !.pc = IF o.op = "add" THEN "118" ELSE "130",
                 !.op = o.op, !.status = o.status, !.base = cs]

\* both threads enter a flag update of the same device
BeginFlagUpdates ==
    /\ Quiet
    /\ trace = <<>>
    /\ FlagDevice \in DOMAIN devices
    /\ \E p \in PushFlagOps, c \in CallerFlagOps :
          threads' = [threads EXCEPT
                         ![PushThread] = Entered(p, devices[FlagDevice].connection_status),
                         ![CallerThread] = Entered(c, devices[FlagDevice].connection_status)]
    /\ UNCHANGED <<login_token, mqtt_cert_file, mqtt_topic, mqtt_connection,
                   bluetooth_running, devices, device_order, bluetooth_connections, trace>>

\* one statement that only reads self.__connection_status
FlagRead(t) ==
    LET th == threads[t]
        cs == devices[FlagDevice].connection_status
    IN /\ th.pc \in {"118", "120", "122", "130", "132", "133"}
       /\ threads' = [threads EXCEPT ![t] =
             CASE th.pc = "118" -> [th EXCEPT !.changed = (cs \cap th.status) # th.status,
                                              !.pc = "120"]
               [] th.pc = "120" -> [th EXCEPT !.tmp = cs \cup th.status, !.pc = "120w"]
               [] th.pc = "122" -> [th EXCEPT !.tmp = cs \cap FlagNot(OFFLINE), !.pc = "122w"]
               [] th.pc = "130" -> [th EXCEPT !.changed = (cs \cap th.status) = th.status,
                                              !.pc = "132"]
               [] th.pc = "132" -> [th EXCEPT !.tmp = cs \cap FlagNot(th.status), !.pc = "132w"]
               [] th.pc = "133" -> [th EXCEPT !.pc = IF cs = {} THEN "134" ELSE "return"]]
       /\ UNCHANGED <<login_token, mqtt_cert_file, mqtt_topic, mqtt_connection,
                      bluetooth_running, devices, device_order, bluetooth_connections, trace>>

\* one statement that stores into self.__connection_status
FlagWrite(t) ==
    LET th == threads[t]
    IN /\ th.pc \in {"120w", "122w", "132w", "134"}
       /\ devices' = [devices EXCEPT ![FlagDevice].connection_status =
                         IF th.pc = "134" THEN OFFLINE ELSE th.tmp]
       /\ threads' = [threads EXCEPT ![t] =
             CASE th.pc = "120w" -> [th EXCEPT !.pc = "122"]
               [] th.pc = "122w" -> [th EXCEPT !.changed = TRUE, !.pc = "return"]
               [] th.pc = "132w" -> [th EXCEPT !.pc = "133"]
               [] th.pc = "134" -> [th EXCEPT !.changed = TRUE, !.pc = "return"]]
       /\ UNCHANGED <<login_token, mqtt_cert_file, mqtt_topic, mqtt_connection,
                      bluetooth_running, device_order, bluetooth_connections, trace>>

\* both methods have returned
Returned == \A t \in DOMAIN threads : threads[t].pc = "return"

EndFlagUpdates ==
    /\ Returned
    /\ threads' = IdleThreads
    /\ UNCHANGED <<login_token, mqtt_cert_file, mqtt_topic, mqtt_connection,
                   bluetooth_running, devices, device_order, bluetooth_connections, trace>>

FlagRaws == {RawD1(TRUE), RawD1(FALSE)}

NextFlags ==
    \/ Quiet /\ UpdateDeviceList({}, FlagRaws)
    \/ Quiet /\ SetOn
    \/ BeginFlagUpdates
    \/ FlagRead(PushThread)
    \/ FlagWrite(PushThread)
    \/ FlagRead(CallerThread)
    \/ FlagWrite(CallerThread)
    \/ EndFlagUpdates
    \/ Forget

SpecFlags == Init /\ [][NextFlags]_vars

----------------------------------------------------------------------------
(* SpecEnumeration: the loop over the device list (lines 324-356) run entry  *)
(* by entry on the caller's thread (update_device_list) and on the thread    *)
(* that delivers pushes (a message for an unknown device).  The lookup of    *)
(* line 336 and the store of line 355 are steps of their own.                *)

\* lines 325-341: the entry is not skipped, its identifier is not registered
\* and a factory exists for its product code
TakesElseBranch(m, raw) ==
    /\ raw.device # <<>>
    /\ raw.sku # <<>>
    /\ raw.topic # None
    /\ raw.device \notin DOMAIN m.devs
    /\ GetDeviceFactory(raw.sku) # None

\* lines 254-322 and 390-438: the thread asks for the device list, the
\* caller in update_device_list, the other thread in the callback
EnumerationStarts(t, raws, pushes) ==
    /\ threads[t].pc = "idle"
    /\ mqtt_connection = "subscribed"
    /\ ~LoginRequired(Cur)
    /\ \E l \in SeqsUpTo(raws, MaxListLen), message \in pushes :
          /\ message.state[1].device[1] \notin DOMAIN devices
          /\ LET m0 == IF t = PushThread THEN Delivered(Cur, message) ELSE Cur
                 m1 == Emit(LoginIfRequired(m0, CalmEnv),
                            [Ev("http_list", None) EXCEPT !.data = l])
             IN CommitThread(m1, t, [Idle EXCEPT !.pc = "loop", !.remaining = l,
                                                 !.message = message])

\* lines 325-341 for the next entry: it is skipped, or its device is renamed,
\* or the thread enters the else branch
EnumerationLooks(t) ==
    /\ threads[t].pc = "loop"
    /\ threads[t].remaining # <<>>
    /\ LET th == threads[t]
           raw == Head(th.remaining)
           m1 == UpsertDevice(Cur, raw)
       IN IF TakesElseBranch(Cur, raw)
          THEN CommitThread(Cur, t, [th EXCEPT !.pc = "build"])
          ELSE CommitThread(m1, t, IF m1.exc THEN Idle
                                   ELSE [th EXCEPT !.remaining = Tail(@)])

\* lines 343-356: the device is built, stored under its identifier and
\* announced; a device stored there meanwhile is replaced
EnumerationInserts(t) ==
    /\ threads[t].pc = "build"
    /\ LET th == threads[t]
           raw == Head(th.remaining)
           m1 == InsertDevice(Cur, raw.device,
                              NewDevice(FactoryBuild(GetDeviceFactory(raw.sku)[1], raw.sku),
                                        raw.topic[1], raw.sku, raw.deviceName, IotHint(raw)))
       IN CommitThread([m1 EXCEPT !.order = IF raw.device \in DOMAIN devices
                                             THEN device_order ELSE m1.order],
                       t, [th EXCEPT !.pc = "loop", !.remaining = Tail(@)])

\* after the loop: the status requests of lines 264-265 on the caller's
\* thread, lines 439-445 of the callback on the other
EnumerationEnds(t) ==
    /\ threads[t].pc = "loop"
    /\ threads[t].remaining = <<>>
    /\ CommitThread(IF t = PushThread THEN ApplyPush(Cur, threads[t].message)
                    ELSE RequestStatusAll(Cur, device_order, CalmEnv),
                    t, Idle)

EnumerationRaws == {RawD1(TRUE), RawD2Iot}

EnumerationPushes == {PushFull(D1), PushFull(D2)}

NextEnumeration ==
    \/ threads[CallerThread].pc = "idle" /\ Login({})
    \/ MqttMessage(EnumerationPushes, {}, {})
    \/ \E t \in {PushThread, CallerThread} :
          EnumerationStarts(t, EnumerationRaws, EnumerationPushes)
    \/ \E t \in {PushThread, CallerThread} : EnumerationLooks(t)
    \/ \E t \in {PushThread, CallerThread} : EnumerationInserts(t)
    \/ \E t \in {PushThread, CallerThread} : EnumerationEnds(t)
    \/ Forget

SpecEnumeration == Init /\ [][NextEnumeration]_vars

----------------------------------------------------------------------------
(* Reading the trace *)

\* the positions where a _publish_command starts
Dispatches == {i \in DOMAIN trace : trace[i].ev = "dispatch"}

\* the position where the _publish_command started at i ends: it returns or raises
DispatchEnd(i) ==
    CHOOSE j \in (i + 1)..Len(trace) :
        /\ trace[j].ev \in {"return", "raise"}
        /\ \A k \in (i + 1)..(j - 1) : trace[k].ev \notin {"return", "raise"}

\* the calls made by the _publish_command started at i
Calls(i) == (i + 1)..DispatchEnd(i)

CallsOf(i, ev) == {j \in Calls(i) : trace[j].ev = ev}

BtEvents == {"bt_start", "bt_connect", "bt_write", "bt_disconnect"}

----------------------------------------------------------------------------
(* C1..C4: the transport decision and the connection status *)

\* every broker publish is made by some _publish_command
PublishesAreDispatched ==
    \A j \in DOMAIN trace :
        trace[j].ev = "mqtt_publish" => \E i \in Dispatches : j \in Calls(i)

\* C1: a dispatch attempts a broker publish only if the device declares IOT
\* capability and either holds IOT_CONNECTED when the dispatch starts or the
\* command is a status request; otherwise the dispatch makes no broker publish
C1_BrokerOnlyIfCapableAndConnectedOrStatus ==
    /\ PublishesAreDispatched
    /\ \A i \in Dispatches :
          CallsOf(i, "mqtt_publish") # {}
              => /\ trace[i].cap
                 /\ (IOT_CONNECTED \subseteq trace[i].cs \/ trace[i].kind = "status")

\* C1 happens: a command that is no status request was published for a capable,
\* connected device, and in the same world a dispatch on a device without IOT
\* capability made no publish
C1_Witness ==
    \E i \in Dispatches :
        /\ trace[i].kind = "turn"
        /\ trace[i].cap
        /\ IOT_CONNECTED \subseteq trace[i].cs
        /\ CallsOf(i, "mqtt_publish") # {}
        /\ \E d \in DOMAIN devices : ~devices[d].iot_device

\* C2: a status request on an IOT capable device publishes on the broker before
\* anything else, also when IOT_CONNECTED is clear; the Bluetooth path of a status
\* request is entered only after that publish failed or on a device without IOT
C2_StatusBrokerFirst ==
    \A i \in Dispatches :
        trace[i].kind = "status"
            => /\ trace[i].cap => /\ i + 1 \in CallsOf(i, "mqtt_publish")
                                  /\ trace[i + 1].dev = trace[i].dev
               /\ \A j \in CallsOf(i, "bt_path") :
                     \/ ~trace[i].cap
                     \/ \E k \in CallsOf(i, "mqtt_publish") : k < j /\ ~trace[k].ok

\* C2 happens: a status request for a capable device with IOT_CONNECTED clear was
\* published, the publish failed, and the Bluetooth path was entered after it
C2_Witness ==
    \E i \in Dispatches :
        /\ trace[i].kind = "status"
        /\ trace[i].cap
        /\ ~(IOT_CONNECTED \subseteq trace[i].cs)
        /\ \E k \in CallsOf(i, "mqtt_publish"), j \in CallsOf(i, "bt_path") :
              k < j /\ ~trace[k].ok

C4_StatusNeverEmpty ==
    \A d \in DOMAIN devices :
        LET cs == devices[d].connection_status
        IN /\ cs # {}
           /\ \/ cs = OFFLINE
              \/ cs \subseteq (IOT_CONNECTED \cup BT_CONNECTED)

\* C4 happens: a packet write failed for a device whose only flag was
\* BT_CONNECTED, and the device is exactly OFFLINE afterwards
C4_Witness ==
    \E i \in Dispatches :
        /\ \E c \in CallsOf(i, "bt_connect"), w \in CallsOf(i, "bt_write") :
              trace[c].ok /\ ~trace[w].ok
        /\ trace[i].cs = OFFLINE
        /\ devices[trace[i].dev].connection_status = OFFLINE

----------------------------------------------------------------------------
(* C5..C8: the Bluetooth packet and the failures of the two transports *)

\* bit k of byte b
Bit(b, k) == (b \div (2 ^ k)) % 2

\* c is the XOR of the bytes of s: each bit of c is the parity of that bit in s
IsXorOf(c, s) ==
    \A k \in 0..7 : Bit(c, k) = Cardinality({i \in DOMAIN s : Bit(s[i], k) = 1}) % 2

\* C5: for every opcode and every data of 0..17 bytes, the packet written is 20
\* bytes: 0x33, the opcode, the data, zeros up to byte 18, and the XOR of bytes 0..18
C5_FrameLayout ==
    \A i \in Dispatches :
        LET data == trace[i].command.data
        IN (trace[i].kind = "other" /\ Len(data) <= 17)
              => \A w \in CallsOf(i, "bt_write") :
                    LET packet == trace[w].data
                    IN /\ Len(packet) = 20
                       /\ packet[1] = 51
                       /\ packet[2] = trace[i].command.opcode
                       /\ \A n \in 1..Len(data) : packet[2 + n] = data[n]
                       /\ \A n \in (3 + Len(data))..19 : packet[n] = 0
                       /\ packet[20] \in 0..255
                       /\ IsXorOf(packet[20], SubSeq(packet, 1, 19))

\* C5 happens: a packet with 17 bytes of data, not all equal, was written
C5_Witness ==
    \E i \in Dispatches :
        /\ trace[i].kind = "other"
        /\ Len(trace[i].command.data) = 17
        /\ trace[i].command.data[1] # trace[i].command.data[2]
        /\ CallsOf(i, "bt_write") # {}

\* C6: a command for a device without IOT capability and without pooled handle
\* whose connect fails 10 times makes exactly 10 connect attempts, reports one
\* error with the device and the detail of the last failure, writes no packet,
\* leaves BT_CONNECTED clear and the pool without entry, and returns normally
C6_ConnectExhaustion ==
    \A i \in Dispatches :
        LET d == trace[i].dev
            failed == {c \in CallsOf(i, "bt_connect") : ~trace[c].ok}
            errors == CallsOf(i, "on_error")
        IN (~trace[i].cap /\ ~trace[i].pooled /\ Cardinality(failed) >= 10)
              => /\ Cardinality(CallsOf(i, "bt_connect")) = 10
                 /\ Cardinality(errors) = 1
                 /\ \A e \in errors :
                       /\ trace[e].dev = d
                       /\ trace[e].text = "Unable to connect to device via Bluetooth"
                       /\ \A c \in failed : c < e
                       /\ \E c \in failed : /\ \A c2 \in failed : c2 <= c
                                            /\ trace[e].data = trace[c].data
                 /\ CallsOf(i, "bt_write") = {}
                 /\ \A j \in Calls(i) : trace[j].ev # "on_device_update"
                 /\ ~(BT_CONNECTED \subseteq devices[d].connection_status)
                 /\ BtAddress(d) \notin DOMAIN bluetooth_connections
                 /\ trace[DispatchEnd(i)].ev = "return"

\* C6 happens: a command on such a device met 10 failed connects
C6_Witness ==
    \E i \in Dispatches :
        /\ ~trace[i].cap
        /\ ~trace[i].pooled
        /\ Cardinality({c \in CallsOf(i, "bt_connect") : ~trace[c].ok}) = 10

\* C7: after a failed packet write the error is reported with the device and the
\* hexadecimal packet, BT_CONNECTED is clear, an update is raised only if the flag
\* was set, the handle is disconnected, and the pool holds no entry for the address
C7_SendFailureTearsDown ==
    \A i \in Dispatches : \A w \in CallsOf(i, "bt_write") :
        LET d == trace[i].dev
            was_set == \/ \E c \in CallsOf(i, "bt_connect") : trace[c].ok
                       \/ BT_CONNECTED \subseteq trace[i].cs
        IN ~trace[w].ok
              => /\ trace[w + 1].ev = "on_error"
                 /\ trace[w + 1].dev = d
                 /\ trace[w + 1].data = HexLify(trace[w].data)
                 /\ ~(BT_CONNECTED \subseteq devices[d].connection_status)
                 /\ (\E u \in Calls(i) : u > w /\ trace[u].ev = "on_device_update") <=> was_set
                 /\ \E x \in CallsOf(i, "bt_disconnect") : x > w
                 /\ BtAddress(d) \notin DOMAIN bluetooth_connections

\* what a failed packet write does do: C7 without the removal from the pool
C7_SendFailureReported ==
    \A i \in Dispatches : \A w \in CallsOf(i, "bt_write") :
        LET d == trace[i].dev
            was_set == \/ \E c \in CallsOf(i, "bt_connect") : trace[c].ok
                       \/ BT_CONNECTED \subseteq trace[i].cs
        IN ~trace[w].ok
              => /\ trace[w + 1].ev = "on_error"
                 /\ trace[w + 1].dev = d
                 /\ trace[w + 1].data = HexLify(trace[w].data)
                 /\ ~(BT_CONNECTED \subseteq devices[d].connection_status)
                 /\ (\E u \in Calls(i) : u > w /\ trace[u].ev = "on_device_update") <=> was_set
                 /\ \E x \in CallsOf(i, "bt_disconnect") : x > w
                 /\ bluetooth_connections[BtAddress(d)] = "closed"

\* C8: a failed broker publish is followed by exactly one error report with the
\* device and the JSON payload, IOT_CONNECTED is clear afterwards, an update is
\* raised if and only if the flag was set when the publish was made, and the same
\* dispatch then enters the Bluetooth path with the same command
C8_PublishFailure ==
    \A i \in Dispatches : \A k \in CallsOf(i, "mqtt_publish") :
        LET d == trace[i].dev
        IN ~trace[k].ok
              => \E b \in CallsOf(i, "bt_path") :
                    LET between == {j \in Calls(i) : k < j /\ j < b}
                        errors == {j \in between : trace[j].ev = "on_error"}
                        updates == {j \in between : trace[j].ev = "on_device_update"}
                    IN /\ errors = {k + 1}
                       /\ trace[k + 1].dev = d
                       /\ trace[k + 1].text = "Unable to send data via MQTT"
                       /\ trace[k + 1].msg = trace[k].msg
                       /\ trace[k].msg.cmd = GetIotPayload(trace[i].command).cmd
                       /\ Cardinality(updates) = (IF IOT_CONNECTED \subseteq trace[k].cs THEN 1 ELSE 0)
                       /\ \A u \in updates : trace[u].dev = d
                       /\ between = errors \cup updates
                       /\ ~(IOT_CONNECTED \subseteq devices[d].connection_status)
                       /\ trace[b].dev = d
                       /\ trace[b].kind = trace[i].kind

\* C8 happens: a publish failed for a device that held IOT_CONNECTED
C8_Witness ==
    \E i \in Dispatches : \E k \in CallsOf(i, "mqtt_publish") :
        /\ ~trace[k].ok
        /\ IOT_CONNECTED \subseteq trace[k].cs
        /\ trace[i].kind = "brightness"

----------------------------------------------------------------------------
(* C9, C10: the session reset of __login_if_required *)

\* the invocations of __login_if_required in the handler
LoginCalls == {i \in DOMAIN trace : trace[i].ev = "login_if_required"}

\* the positions of the calls named ev
Positions(ev) == {i \in DOMAIN trace : trace[i].ev = ev}

\* the session calls a reset makes
SessionCalls == {"http_login", "mqtt_disconnect", "mqtt_new", "mqtt_connect", "mqtt_subscribe"}

\* C9: a session reset entered while the devices of a set hold IOT_CONNECTED
\* raises exactly one update per device of the set and none for any other
\* device, all of them before the new client is created, connected and
\* subscribed; when it subscribes no device holds IOT_CONNECTED
C9_ResetClearsBeforeSubscribe ==
    \A l \in LoginCalls : \A n \in Positions("mqtt_new") :
        LET held == trace[l].held
            updates == {u \in (l + 1)..(n - 1) : trace[u].ev = "on_device_update"}
        IN /\ l < n
           /\ \A d \in held : Cardinality({u \in updates : trace[u].dev = d}) = 1
           /\ \A u \in updates : trace[u].dev \in held
           /\ \A c \in Positions("mqtt_connect") \cup Positions("mqtt_subscribe") :
                 /\ n < c
                 /\ \A u \in (n + 1)..c : trace[u].ev # "on_device_update"
           /\ \A c \in Positions("mqtt_subscribe") : trace[c].held = {}

\* C9 happens: a reset entered with two devices holding IOT_CONNECTED subscribed
C9_Witness ==
    \E l \in LoginCalls : \E c \in Positions("mqtt_subscribe") :
        /\ l < c
        /\ Cardinality(trace[l].held) = 2
        /\ trace[c].ok

\* C10: invoked with a valid token, a certificate reference and a topic,
\* __login_if_required makes no call at all (no login request, no disconnect,
\* no update, no new client, no connect, no subscribe) and leaves the session
\* and the flags of the devices as they were
C10_LoginIdempotent ==
    \A l \in LoginCalls :
        {"jwt", "cert", "topic"} \subseteq trace[l].facts
           => /\ \A j \in DOMAIN trace : trace[j].ev \notin SessionCalls
              /\ l < Len(trace) => trace[l + 1].ev = "http_list"
              /\ mqtt_connection = trace[l].sess
              /\ "jwt" \in trace[l].facts /\ TokenIsValid(login_token)
              /\ mqtt_cert_file # None /\ mqtt_topic # None
              /\ Len(trace) = l => IotHolders(Cur) = trace[l].held

\* C10 happens: login() was invoked on an established session with a device
\* holding IOT_CONNECTED
C10_Witness ==
    /\ Len(trace) = 1
    /\ trace[1].ev = "login_if_required"
    /\ {"jwt", "cert", "topic"} \subseteq trace[1].facts
    /\ trace[1].sess = "subscribed"
    /\ trace[1].held # {}

----------------------------------------------------------------------------
(* C11, C12: which failures reach the caller of a command *)

\* the failed calls of the kind ev made by the _publish_command started at i
FailedCalls(i, ev) == {j \in CallsOf(i, ev) : ~trace[j].ok}

\* C11: a failed broker publish, a failed packet write and ten failed connects
\* are each reported through on_error with the device, and none of them is
\* raised: the dispatch returns, and the only exception that leaves a dispatch
\* is the refusal of data longer than 17 bytes
C11_TransportErrorsReported ==
    \A i \in Dispatches :
        LET d == trace[i].dev
            exhausted == Cardinality(FailedCalls(i, "bt_connect")) >= 10
        IN /\ \A k \in FailedCalls(i, "mqtt_publish") :
                 /\ trace[k + 1].ev = "on_error"
                 /\ trace[k + 1].dev = d
                 /\ trace[k + 1].text = "Unable to send data via MQTT"
           /\ \A w \in FailedCalls(i, "bt_write") :
                 /\ trace[w + 1].ev = "on_error"
                 /\ trace[w + 1].dev = d
                 /\ trace[w + 1].text = "Unable to send data via Bluetooth"
           /\ exhausted =>
                 \E e \in CallsOf(i, "on_error") :
                    /\ trace[e].dev = d
                    /\ trace[e].text = "Unable to connect to device via Bluetooth"
                    /\ \A c \in FailedCalls(i, "bt_connect") : c < e
           /\ (FailedCalls(i, "bt_write") # {} \/ exhausted) =>
                 trace[DispatchEnd(i)].ev = "return"
           /\ (FailedCalls(i, "mqtt_publish") # {} /\ Len(trace[i].command.data) <= 17) =>
                 trace[DispatchEnd(i)].ev = "return"
           /\ \A j \in Calls(i) :
                 trace[j].ev = "raise" =>
                    /\ trace[j].text = "Bluetooth data payload too long"
                    /\ Len(trace[i].command.data) > 17

\* C11 happens: the publish failed, then the write failed, and the dispatch returned
C11_Witness ==
    \E i \in Dispatches :
        /\ FailedCalls(i, "mqtt_publish") # {}
        /\ FailedCalls(i, "bt_write") # {}
        /\ trace[DispatchEnd(i)].ev = "return"

\* the calls to a transport made by the _publish_command started at i
TransportCalls(i) ==
    CallsOf(i, "mqtt_publish") \cup CallsOf(i, "bt_connect") \cup CallsOf(i, "bt_write")

----------------------------------------------------------------------------
(* C13: the power command and the cached power state *)

\* C13: a power command whose value equals the cached power state of the device
\* does nothing: no dispatch, no broker publish, no Bluetooth call; with any
\* other cached state, unknown included, exactly one dispatch of it follows
C13_SamePowerIsNoOp ==
    \A t \in Positions("turn") :
        IF trace[t].data = Some(trace[t].command.on)
        THEN Len(trace) = t
        ELSE /\ Cardinality(Dispatches) = 1
             /\ \A i \in Dispatches : /\ i = t + 1
                                      /\ trace[i].dev = trace[t].dev
                                      /\ trace[i].command = trace[t].command

\* C13 happens: a device connected to the broker and known to be on is turned on
C13_Witness ==
    /\ Len(trace) = 1
    /\ trace[1].ev = "turn"
    /\ trace[1].data = Some(TRUE)
    /\ trace[1].command.on
    /\ IOT_CONNECTED \subseteq devices[trace[1].dev].connection_status

----------------------------------------------------------------------------
(* C14..C16: messages on the subscribed topic *)

\* the positions of the calls named ev in the calls tr of a handler
PositionsIn(tr, ev) == {i \in DOMAIN tr : tr[i].ev = ev}

\* the attributes of a device that a message or a command can change
Runtime(device) ==
    <<device.on, device.brightness, device.color, device.color_temperature>>

\* C14: a message for an identifier that is not registered makes exactly one
\* call of __http_update_device_list; if the identifier is still not registered
\* afterwards, no update carries the message, no update is raised after the
\* list was fetched, and no registered device changes its attributes nor gains
\* a flag; a message for a registered identifier makes no such call
C14_UnknownDeviceRefreshesOnce ==
    [][(trace = <<>> /\ trace' # <<>> /\ trace'[1].ev = "mqtt_message" /\ trace'[1].ok) =>
          LET d == trace'[1].dev
              lists == PositionsIn(trace', "http_list")
              updates == PositionsIn(trace', "on_device_update")
          IN IF d \in DOMAIN devices
             THEN /\ PositionsIn(trace', "login_if_required") = {}
                  /\ lists = {}
                  /\ PositionsIn(trace', "http_login") = {}
             ELSE /\ Cardinality(PositionsIn(trace', "login_if_required")) = 1
                  /\ Cardinality(lists) <= 1
                  /\ d \notin DOMAIN devices' =>
                        /\ \A u \in updates :
                              /\ trace'[u].text # "raw_json"
                              /\ \A l \in lists : u < l
                        /\ \A e \in DOMAIN devices :
                              /\ e \in DOMAIN devices'
                              /\ Runtime(devices'[e]) = Runtime(devices[e])
                              /\ devices'[e].connection_status \in
                                    {devices[e].connection_status,
                                     RemoveConnectionStatus(devices[e].connection_status,
                                                            IOT_CONNECTED).cs}
    ]_vars

\* C14 happens: a message named a device that the fetched list did not hold
\* either, while another device was registered
C14_Witness ==
    /\ trace # <<>>
    /\ trace[1].ev = "mqtt_message"
    /\ trace[1].ok
    /\ trace[1].dev \notin DOMAIN devices
    /\ Positions("http_list") # {}
    /\ trace[Len(trace)].ev # "raise"
    /\ DOMAIN devices # {}

\* a handler step that is the delivery of a message naming device d, which
\* was registered before the message came
PushTo(d) ==
    /\ trace = <<>>
    /\ trace' # <<>>
    /\ trace'[1].ev = "mqtt_message"
    /\ trace'[1].ok
    /\ trace'[1].dev = d
    /\ d \in DOMAIN devices

\* the update raised for the message: one on_device_update for d, with the raw
\* payload, as the last call of the handler
NotifiedOnce(tr, d) ==
    LET updates == {u \in PositionsIn(tr, "on_device_update") : tr[u].dev = d}
    IN /\ Cardinality(updates) = 1
       /\ \A u \in updates : tr[u].text = "raw_json" /\ u = Len(tr)

\* C15: a message for a registered device that changes anything of the device
\* is followed by exactly one update with the raw payload, raised after all
\* fields were applied
C15_ChangingPushNotifiedOnce ==
    [][\A d \in Ids :
          (PushTo(d) /\ devices'[d] # devices[d]) => NotifiedOnce(trace', d)]_vars

\* what holds of C15: a message that carries connected, onOff and brightness is
\* followed by exactly one update, whether it changes the device or not
C15_CompletePushNotifiedOnce ==
    [][\A d \in Ids :
          (PushTo(d) /\ \A k \in IndexedKeys : trace'[1].msg.state[1][k] # None)
             => NotifiedOnce(trace', d)]_vars

\* the attributes of device, of the class of before, after the fields of the
\* pushed state st are applied and the absent ones are left alone
Applied(before, st) ==
    LET rgb == before.class \in {"GoveeBulb", "GoveeLedStrip"}
    IN [before EXCEPT
          !.connection_status =
              IF st.connected = None THEN @
              ELSE IF st.connected[1].v = "true" THEN (@ \ OFFLINE) \cup IOT_CONNECTED
              ELSE IF @ \ IOT_CONNECTED = {} THEN OFFLINE ELSE @ \ IOT_CONNECTED,
          !.on = IF st.onOff = None THEN @ ELSE <<st.onOff[1] = 1>>,
          !.brightness = IF st.brightness = None THEN @ ELSE <<<<st.brightness[1], 255>>>>,
          !.color = IF rgb THEN st.color ELSE @,
          !.color_temperature = IF rgb THEN st.colorTemInKelvin ELSE @]

\* C16: a message for a registered device leaves alone the attributes whose key
\* among connected, onOff and brightness it omits, applies the fields it
\* carries, and clears colour and colour temperature when it omits them
C16_AbsentFieldsKept ==
    [][\A d \in Ids :
          PushTo(d) => devices'[d] = Applied(devices[d], trace'[1].msg.state[1])]_vars

\* what holds of C16: a message that carries connected, onOff and brightness is
\* applied, and colour and colour temperature are cleared when omitted
C16_CompletePushApplied ==
    [][\A d \in Ids :
          (PushTo(d) /\ \A k \in IndexedKeys : trace'[1].msg.state[1][k] # None)
             => devices'[d] = Applied(devices[d], trace'[1].msg.state[1])]_vars

----------------------------------------------------------------------------
(* C17, C18: the registry and the device factory *)

\* a handler step that fetched a device list and got an answer
Enumerated ==
    /\ trace = <<>>
    /\ \E l \in PositionsIn(trace', "http_list") : trace'[l].ok

\* the list that the handler with the calls tr was answered with
ListOf(tr) == tr[CHOOSE l \in PositionsIn(tr, "http_list") : TRUE].data

\* the entries of list that name the identifier e and are not skipped
EntriesFor(list, e) ==
    {n \in DOMAIN list : /\ list[n].device = e
                         /\ list[n].sku # <<>>
                         /\ list[n].address \/ list[n].topic # <<>>}

\* everything of a registered device but its name and its connection status
Entity(device) ==
    <<device.class, device.topic, device.sku, device.iot_device, Runtime(device)>>

\* C17: an enumeration changes of a registered device only the name, to the
\* name of the last entry for its identifier, and raises no on_new_device for
\* it; it registers an unknown identifier at most once, with exactly one
\* on_new_device raised when the device is in the registry; no registered
\* device is removed or replaced
C17_UpsertKeepsRegistered ==
    [][Enumerated =>
          LET list == ListOf(trace') IN
             /\ \A e \in DOMAIN devices :
                   /\ e \in DOMAIN devices'
                   /\ Entity(devices'[e]) = Entity(devices[e])
                   /\ \A n \in PositionsIn(trace', "on_new_device") : trace'[n].dev # e
                   /\ IF EntriesFor(list, e) = {}
                      THEN devices'[e].name = devices[e].name
                      ELSE \E n \in EntriesFor(list, e) :
                              /\ \A k \in EntriesFor(list, e) : k <= n
                              /\ devices'[e].name = list[n].deviceName
                   /\ (PositionsIn(trace', "mqtt_new") = {}
                       /\ \A k \in PositionsIn(trace', "mqtt_publish") :
                             trace'[k].dev = e => trace'[k].ok)
                         => devices'[e].connection_status = devices[e].connection_status
             /\ \A e \in DOMAIN devices' \ DOMAIN devices :
                   LET new == {n \in PositionsIn(trace', "on_new_device") : trace'[n].dev = e}
                   IN /\ Cardinality(new) = 1
                      /\ \A n \in new : e \in trace'[n].held
                      /\ EntriesFor(list, e) # {}
             /\ \A n \in PositionsIn(trace', "on_new_device") :
                   trace'[n].dev \in DOMAIN devices' \ DOMAIN devices
    ]_vars

\* C17 happens: the list just fetched named a registered strip with known
\* attributes under another name, topic and product code
C17_Witness ==
    /\ D1 \in DOMAIN devices
    /\ devices[D1].name = "Porch"
    /\ devices[D1].topic = "GD/1"
    /\ devices[D1].sku = SkuStrip
    /\ devices[D1].on = Some(TRUE)
    /\ \E l \in Positions("http_list") : \E n \in DOMAIN trace[l].data :
          /\ trace[l].data[n].device = D1
          /\ trace[l].data[n].deviceName = "Porch"
          /\ trace[l].data[n].sku = SkuBulb

\* a product code of the bulb family or of the strip family
Recognized(sku) ==
    /\ Len(sku) >= 5
    /\ sku[1] = "H"
    /\ sku[2] = "6"
    /\ sku[3] \in {"0", "1"}

\* the class the factory builds for a recognized product code
ClassFor(sku) ==
    IF sku[3] = "1" THEN "GoveeLedStrip"
    ELSE IF sku = <<"H", "6", "0", "8", "5">> THEN "GoveeWhiteBulb"
    ELSE "GoveeBulb"

\* C18: every registered device has a recognized product code and the class
\* of that code; an enumeration registers an identifier under the first of its
\* entries with a recognized code, registers nothing and raises no
\* on_new_device for an identifier without such an entry, and does not raise
C18_FactoryByProductCode ==
    [][Enumerated =>
          LET list == ListOf(trace') IN
             /\ \A e \in DOMAIN devices' :
                   /\ Recognized(devices'[e].sku)
                   /\ devices'[e].class = ClassFor(devices'[e].sku)
             /\ \A e \in Ids \ DOMAIN devices :
                   LET good == {n \in EntriesFor(list, e) : Recognized(list[n].sku)}
                   IN IF good = {}
                      THEN /\ e \notin DOMAIN devices'
                           /\ \A n \in PositionsIn(trace', "on_new_device") : trace'[n].dev # e
                      ELSE /\ e \in DOMAIN devices'
                           /\ \E n \in good : /\ \A k \in good : n <= k
                                              /\ devices'[e].sku = list[n].sku
             /\ PositionsIn(trace', "raise") = {}
    ]_vars

\* C18 happens: the list just fetched named an unregistered identifier with a
\* code of four characters of the bulb family, while a device was registered
C18_Witness ==
    /\ DOMAIN devices # {}
    /\ \E l \in Positions("http_list") : \E n \in DOMAIN trace[l].data :
          /\ Len(trace[l].data[n].sku) = 4
          /\ trace[l].data[n].device \notin DOMAIN devices
          /\ trace[l].data[n].sku # <<>>
          /\ ~Recognized(trace[l].data[n].sku)

----------------------------------------------------------------------------
(* C19, C20: the two threads *)

\* the thread that delivers pushes has called disconnect on the old client
\* and the subscription of the new one has not returned
InReset == threads[PushThread].pc \in {"clear", "new", "connect", "subscribe"}

\* C19: while the session is reset on the thread that delivers pushes, a
\* publish of the caller's thread is not accepted (it fails and is reported)
\* and is not made on a client that was disconnected or is not connected yet
C19_NoPublishDuringReset ==
    InReset =>
        \A j \in Positions("mqtt_publish") :
            /\ ~trace[j].ok
            /\ trace[j].sess \notin {"disconnected", "created"}

\* the status after the whole method of thread t ran alone on cs
Alone(t, cs) ==
    IF threads[t].op = "add"
    THEN AddConnectionStatus(cs, threads[t].status).cs
    ELSE RemoveConnectionStatus(cs, threads[t].status).cs

\* C20: when a flag update of the thread that delivers pushes and one of the
\* caller's thread on the same device have both returned, the stored status
\* is what the two updates give in one of the two serial orders, and it is
\* not empty
C20_FlagUpdatesSerializable ==
    Returned =>
        LET cs == devices[FlagDevice].connection_status
            base == threads[PushThread].base
        IN /\ cs \in {Alone(CallerThread, Alone(PushThread, base)),
                      Alone(PushThread, Alone(CallerThread, base))}
           /\ cs # {}

----------------------------------------------------------------------------
(* C21, C22: the order of the session reset and a login that fails *)

\* the updates raised while the flags are cleared (lines 233-235): they carry
\* no message and come before the first _publish_command of the handler
ClearingUpdates ==
    {u \in Positions("on_device_update") :
        /\ trace[u].text = "None"
        /\ \A i \in Dispatches : u < i}

\* C21 as stated: in a session reset the new session is subscribed before the
\* IOT_CONNECTED flags are cleared, and the flags are cleared before any publish
C21_ReconnectBeforeClearing ==
    \A u \in ClearingUpdates :
        /\ \E c \in Positions("mqtt_subscribe") : trace[c].ok /\ c < u
        /\ \A p \in Positions("mqtt_publish") : u < p

\* C21: in a session reset the old client is disconnected first, then the
\* IOT_CONNECTED flags of all devices are cleared, then the new client is
\* created, connected and subscribed, and every publish the same handler makes
\* comes after the subscription returned and goes to the subscribed client
C21_ClearingBeforeReconnect ==
    \A n \in Positions("mqtt_new") :
        /\ trace[n].held = {}
        /\ \A x \in Positions("mqtt_disconnect") :
              /\ x < n
              /\ \A u \in ClearingUpdates : x < u
        /\ \A u \in ClearingUpdates : u < n
        /\ \A c \in Positions("mqtt_connect") :
              /\ n < c
              /\ \A b \in Positions("mqtt_subscribe") : c < b
        /\ \A p \in Positions("mqtt_publish") :
              /\ trace[p].sess = "subscribed"
              /\ \E b \in Positions("mqtt_subscribe") : trace[b].ok /\ b < p

\* C21 happens: a reset disconnected the old client, cleared the flag of a
\* device, subscribed the new client, and the handler published afterwards
C21_Witness ==
    /\ Positions("mqtt_disconnect") # {}
    /\ ClearingUpdates # {}
    /\ \E b \in Positions("mqtt_subscribe") : \E p \in Positions("mqtt_publish") :
          trace[b].ok /\ b < p

\* the GoveeExceptions of lines 201-215
AuthenticationErrors ==
    {"Govee answered with login status", "Govee sent us an invalid JWT",
     "Govee requires the certificate"}

\* the handler ended with an exception of the login
AuthenticationFailed(tr) ==
    /\ tr # <<>>
    /\ tr[Len(tr)].ev = "raise"
    /\ tr[Len(tr)].text \in AuthenticationErrors

\* C22: a handler whose login fails (status, token or certificate) ends with
\* that exception after exactly one login request; it disconnects nothing,
\* creates, connects and subscribes no client, raises no update and leaves the
\* client and every device as they were
C22_FailedLoginChangesNothing ==
    [][(trace = <<>> /\ AuthenticationFailed(trace')) =>
          /\ Cardinality(PositionsIn(trace', "http_login")) = 1
          /\ \A j \in DOMAIN trace' :
                trace'[j].ev \notin {"mqtt_disconnect", "mqtt_new", "mqtt_connect",
                                     "mqtt_subscribe", "on_device_update", "on_error"}
          /\ PositionsIn(trace', "raise") = {Len(trace')}
          /\ mqtt_connection' = mqtt_connection
          /\ devices' = devices
          /\ device_order' = device_order]_vars

\* C22 happens: a login failed while the client was subscribed and a device
\* held IOT_CONNECTED
C22_Witness ==
    /\ AuthenticationFailed(trace)
    /\ mqtt_connection = "subscribed"
    /\ \E d \in DOMAIN devices : IOT_CONNECTED \subseteq devices[d].connection_status

----------------------------------------------------------------------------
(* C23: messages that name no device *)

\* C23: a message without a state object, or whose state has no device key,
\* makes the callback return without any further call: no exception, no error
\* event, no device list request, no update
C23_MalformedPushDropped ==
    (trace # <<>> /\ trace[1].ev = "mqtt_message" /\ ~trace[1].ok) => Len(trace) = 1

----------------------------------------------------------------------------
(* C24: the brightness command *)

\* v is an integer nearest to 255 * b
NearestTo255Times(v, b) ==
    LET diff == v * b[2] - 255 * b[1]
    IN 2 * (IF diff < 0 THEN 0 - diff ELSE diff) <= b[2]

\* C24: the brightness setter, called with a fraction b that differs from the
\* cached brightness on an IOT capable device holding IOT_CONNECTED, makes one
\* _publish_command with one broker publish of cmd "brightness" whose val is
\* the integer in 0..255 nearest to 255 * b (128 for one half); when that
\* publish succeeds the Bluetooth path is not entered
C24_BrightnessEnvelope ==
    \A j \in Positions("brightness") :
        LET b == trace[j].data[1]
            cached == trace[j].data[2]
            ds == {i \in Dispatches : i > j}
        IN (cached = None \/ ~RatEq(b, cached[1])) =>
              /\ ds = {j + 1}
              /\ trace[j + 1].kind = "brightness"
              /\ (trace[j + 1].cap /\ IOT_CONNECTED \subseteq trace[j + 1].cs) =>
                    /\ Cardinality(CallsOf(j + 1, "mqtt_publish")) = 1
                    /\ \A p \in CallsOf(j + 1, "mqtt_publish") :
                          /\ trace[p].msg.cmd = "brightness"
                          /\ \E v \in 0..255 :
                                /\ trace[p].msg.data = <<<<"val", JInt(v)>>>>
                                /\ NearestTo255Times(v, b)
                                /\ RatEq(b, <<1, 2>>) => v = 128
                          /\ trace[p].ok =>
                                \A k \in Calls(j + 1) :
                                    trace[k].ev \notin BtEvents \cup {"bt_path"}

\* C24 happens: one half was set on a connected device whose cached brightness
\* was known, and the publish of val 128 succeeded
C24_Witness ==
    \E j \in Positions("brightness") : \E p \in Positions("mqtt_publish") :
        /\ j < p
        /\ trace[j].data = <<<<1, 2>>, Some(<<200, 255>>)>>
        /\ trace[p].ok
        /\ trace[p].msg.data = <<<<"val", JInt(128)>>>>
        /\ IOT_CONNECTED \subseteq trace[p].cs

----------------------------------------------------------------------------
(* C25: colour and colour temperature of a pushed state *)

\* C25: after a message that carries a colour, the device holds that colour
\* (its components over 255) and no colour temperature within 2000..9000
C25_ColorClearsTemperature ==
    (trace # <<>> /\ trace[1].ev = "mqtt_message" /\ trace[1].ok
       /\ trace[Len(trace)].ev = "on_device_update"
       /\ trace[1].msg.state[1].color # None) =>
          LET device == devices[trace[1].dev]
          IN /\ device.color = trace[1].msg.state[1].color
             /\ ~(/\ device.color_temperature # None
                  /\ device.color_temperature[1] \in KelvinMin..KelvinMax)

----------------------------------------------------------------------------
(* C26: what the flag operations return *)

\* the flags the code adds and removes (device.py:111-113, api.py:234, 508, 537, 587)
ConnectedFlags == {IOT_CONNECTED, BT_CONNECTED}

\* C26: applied to the status of any registered device, adding or removing a
\* connected flag returns True exactly when the status afterwards differs
\* from the status before
C26_FlagOpsReportChange ==
    \A d \in DOMAIN devices : \A status \in ConnectedFlags :
        LET cs == devices[d].connection_status
            a == AddConnectionStatus(cs, status)
            r == RemoveConnectionStatus(cs, status)
        IN /\ a.changed = (a.cs # cs)
           /\ r.changed = (r.cs # cs)

----------------------------------------------------------------------------
(* C27: the pooled handle or a new connection *)

\* C27: a dispatch for a device whose address is in the pool makes no connect
\* attempt and writes on the pooled handle; otherwise it makes at most 10
\* connect attempts and none after the first that succeeds; after that one
\* the handle is in the pool under the address, on_device_update is raised
\* for the device, and only then the packet is written, with BT_CONNECTED set
C27_PooledHandleOrConnect ==
    \A i \in Dispatches :
        LET d == trace[i].dev
            attempts == CallsOf(i, "bt_connect")
            writes == CallsOf(i, "bt_write")
        IN IF trace[i].pooled
           THEN attempts = {}
           ELSE /\ Cardinality(attempts) <= MaxRetries
                /\ \A w \in writes : \E c \in attempts : trace[c].ok
                /\ \A c \in attempts :
                      trace[c].ok =>
                         /\ \A c2 \in attempts : c2 <= c
                         /\ trace[c].data = BtAddress(d)
                         /\ BtAddress(d) \in DOMAIN bluetooth_connections
                         /\ trace[c + 1].ev = "on_device_update"
                         /\ trace[c + 1].dev = d
                         /\ \A w \in writes :
                               /\ c + 1 < w
                               /\ BT_CONNECTED \subseteq trace[w].cs

\* C27 happens: without a pooled handle nine connect attempts failed, the
\* tenth succeeded and the packet was written
C27_Witness ==
    \E i \in Dispatches :
        /\ ~trace[i].pooled
        /\ Cardinality(CallsOf(i, "bt_connect")) = MaxRetries
        /\ \E c \in CallsOf(i, "bt_connect") : trace[c].ok
        /\ CallsOf(i, "bt_write") # {}

----------------------------------------------------------------------------
(* C28: the range of the colour temperature *)

\* what the claim asks a device to hold after a message carrying kelvin
StoredFor(kelvin) ==
    IF kelvin = None THEN None
    ELSE IF kelvin[1] = 0 THEN Some(0)
    ELSE IF kelvin[1] < KelvinMin THEN Some(KelvinMin)
    ELSE IF kelvin[1] > KelvinMax THEN Some(KelvinMax)
    ELSE kelvin

\* C28: the colour temperature of an RGB device is unknown, 0, or within
\* 2000..9000; after a message was applied it is the pushed value brought
\* into that range (0 stays 0, no key gives unknown); every colour
\* temperature command, and every publish of it, carries a value within
\* 2000..9000
C28_ColorTemperatureInRange ==
    /\ \A d \in DOMAIN devices :
          LET t == devices[d].color_temperature
          IN t = None \/ t = Some(0) \/ t[1] \in KelvinMin..KelvinMax
    /\ (trace # <<>> /\ trace[1].ev = "mqtt_message" /\ trace[1].ok
          /\ trace[Len(trace)].ev = "on_device_update"
          /\ IsRgbClass(devices[trace[1].dev].class)) =>
             devices[trace[1].dev].color_temperature
                = StoredFor(trace[1].msg.state[1].colorTemInKelvin)
    /\ \A i \in Dispatches :
          trace[i].kind = "colorTem" =>
             /\ trace[i].command.kelvin \in KelvinMin..KelvinMax
             /\ \A p \in CallsOf(i, "mqtt_publish") :
                   \E k \in KelvinMin..KelvinMax :
                       trace[p].msg.data[4] = <<"colorTemInKelvin", JInt(k)>>

\* C28 happens: a device holds 2000 after a pushed 1500, and a colour
\* temperature command for it was published with 9000
C28_Witness ==
    \E i \in Dispatches : \E p \in CallsOf(i, "mqtt_publish") :
        /\ trace[i].kind = "colorTem"
        /\ trace[p].msg.data[4] = <<"colorTemInKelvin", JInt(KelvinMax)>>
        /\ devices[trace[i].dev].color_temperature = Some(KelvinMin)

----------------------------------------------------------------------------
(* C29: the components of a colour command *)

\* C29: a colour command for which a broker publish, a Bluetooth connect or a
\* Bluetooth write is made carries red, green and blue within 0..255
C29_ColorComponentsInRange ==
    \A i \in Dispatches :
        (/\ trace[i].kind = "color"
         /\ \E j \in Calls(i) : trace[j].ev \in {"mqtt_publish", "bt_connect", "bt_write"}) =>
            /\ trace[i].command.red \in 0..255
            /\ trace[i].command.green \in 0..255
            /\ trace[i].command.blue \in 0..255

----------------------------------------------------------------------------
(* C30: what a command may change *)

\* the handler that ran is a property setter, request_status or a bare
\* _publish_command
CommandStep ==
    /\ trace = <<>>
    /\ trace' # <<>>
    /\ trace'[1].ev \in {"dispatch", "turn", "brightness", "raise"}

\* a call named ev for device d that failed (ok = FALSE) or returned (ok = TRUE)
Answered(tr, ev, d, ok) ==
    \E j \in PositionsIn(tr, ev) : tr[j].dev = d /\ tr[j].ok = ok

\* C30: a command handler registers and removes no device and leaves every
\* field of every device but connection_status as it was; IOT_CONNECTED is
\* lost exactly by a failed publish for the device, BT_CONNECTED is gained
\* exactly by a connect that succeeded and lost exactly by a failed write, and
\* without any of the three the status is the same; in any handler the cached
\* power, brightness, colour and colour temperature of a registered device
\* change only when a message for that device is applied
C30_DispatchKeepsCachedState ==
    [][/\ CommandStep =>
            /\ DOMAIN devices' = DOMAIN devices
            /\ device_order' = device_order
            /\ \A d \in DOMAIN devices :
                  LET cs == devices[d].connection_status
                      after == devices'[d].connection_status
                      lostIot == Answered(trace', "mqtt_publish", d, FALSE)
                      gainedBt == Answered(trace', "bt_connect", d, TRUE)
                      lostBt == Answered(trace', "bt_write", d, FALSE)
                  IN /\ [devices'[d] EXCEPT !.connection_status = {}]
                           = [devices[d] EXCEPT !.connection_status = {}]
                     /\ (IOT_CONNECTED \subseteq after)
                           <=> (IOT_CONNECTED \subseteq cs /\ ~lostIot)
                     /\ (BT_CONNECTED \subseteq after)
                           <=> ((BT_CONNECTED \subseteq cs \/ gainedBt) /\ ~lostBt)
                     /\ (~lostIot /\ ~gainedBt /\ ~lostBt) => after = cs
       /\ \A d \in DOMAIN devices :
             Runtime(devices'[d]) # Runtime(devices[d]) =>
                /\ trace'[1].ev = "mqtt_message"
                /\ trace'[1].dev = d
                /\ trace'[Len(trace')].ev = "on_device_update"]_vars

\* C30 happens: a power command met a failed publish and a failed write for a
\* device whose cached power and brightness are known, and they still are
C30_Witness ==
    /\ trace # <<>>
    /\ trace[1].ev = "turn"
    /\ Answered(trace, "mqtt_publish", trace[1].dev, FALSE)
    /\ Answered(trace, "bt_write", trace[1].dev, FALSE)
    /\ devices[trace[1].dev].on # None
    /\ devices[trace[1].dev].on = trace[1].data
    /\ devices[trace[1].dev].brightness # None

----------------------------------------------------------------------------
(* C31: the pool and the BT_CONNECTED flag *)

\* C31: the pool holds a handle under the Bluetooth address of a device
\* exactly when the device holds BT_CONNECTED
C31_PooledIffConnected ==
    \A d \in DOMAIN devices :
        (BtAddress(d) \in DOMAIN bluetooth_connections)
            <=> (BT_CONNECTED \subseteq devices[d].connection_status)

----------------------------------------------------------------------------
(* C32: the session after __login_if_required returned *)

\* the invocation at l returned: the handler raised nothing, or it went on to
\* request the device list
LoginReturned(l) ==
    \/ Positions("raise") = {}
    \/ \E h \in Positions("http_list") : l < h

\* C32: when __login_if_required has returned, the client is connected and
\* subscribed to the account topic
C32_ReturnedMeansSubscribed ==
    \A l \in LoginCalls : LoginReturned(l) => mqtt_connection = "subscribed"

----------------------------------------------------------------------------
(* C33: the registry under two enumerating threads *)

\* C33: on_new_device is raised, and a device is stored, only for an
\* identifier that was not registered: every identifier is inserted once, its
\* device is never replaced and it is announced once
C33_RegisteredOnce ==
    [][/\ \A j \in PositionsIn(trace', "on_new_device") :
             trace'[j].dev \notin DOMAIN devices
       /\ \A d \in DOMAIN devices :
             devices'[d] # devices[d] =>
                \/ [devices'[d] EXCEPT !.name = ""] = [devices[d] EXCEPT !.name = ""]
                \/ Runtime(devices'[d]) # Runtime(devices[d])
                \/ devices'[d].connection_status # devices[d].connection_status]_vars

----------------------------------------------------------------------------
(* C34: what one dispatch costs *)

\* C34: every dispatch ends, by returning or by raising, and makes at most
\* one broker publish, at most 10 radio connect attempts and at most one
\* radio write, whichever of its transport calls fail
C34_DispatchBounded ==
    \A i \in Dispatches :
        /\ \E j \in (i + 1)..Len(trace) : trace[j].ev \in {"return", "raise"}
        /\ Cardinality(CallsOf(i, "mqtt_publish")) <= 1
        /\ Cardinality(CallsOf(i, "bt_connect")) <= MaxRetries
        /\ Cardinality(CallsOf(i, "bt_write")) <= 1

\* C34 happens: the broker publish of a dispatch failed, its ten connect
\* attempts all failed, and the dispatch ended without a radio write
C34_Witness ==
    \E i \in Dispatches :
        /\ \E p \in CallsOf(i, "mqtt_publish") : ~trace[p].ok
        /\ Cardinality(CallsOf(i, "bt_connect")) = MaxRetries
        /\ \A c \in CallsOf(i, "bt_connect") : ~trace[c].ok
        /\ CallsOf(i, "bt_write") = {}
        /\ trace[DispatchEnd(i)].ev \in {"return", "raise"}

====
